---- MODULE Spec2Model ----
(***************************************************************************)
(* The in-memory device/request registry of the parental-control relay     *)
(* server: the device table, the telemetry histories, the galleries and    *)
(* the front/back camera request tables, with one action per HTTP handler. *)
(*                                                                         *)
(* Each handler runs to completion on the single Node.js thread, so a      *)
(* handler is one atomic action.  The multer middleware of an upload route *)
(* runs before the route's handler and is part of the same action.         *)
(*                                                                         *)
(* Representation of JavaScript values:                                    *)
(*   - an object used as a table ({}): a function whose DOMAIN is the set  *)
(*     of own keys; <<>> is the empty table;                               *)
(*   - an optional value (undefined/null or a value): a sequence of length *)
(*     0 or 1;                                                             *)
(*   - an absent or empty string field of a request body: "".              *)
(***************************************************************************)
EXTENDS Integers, Sequences, FiniteSets, TLC

VARIABLES
    connectedDevices,     \* array of Device records
    deviceGalleries,      \* deviceId -> array of image records
    deviceLocations,      \* deviceId -> array of location fixes (oldest first)
    galleryChanges,       \* deviceId -> array of change events
    deviceNotifications,  \* deviceId -> array of notifications (newest first)
    frontCameraRequests,  \* requestId -> front camera request record
    backCameraRequests,   \* requestId -> back camera request record
    uploadsDir,           \* set of files stored in ./uploads by multer
    writes,               \* uploads whose file multer is still writing
    now,                  \* Date.now(), in half-seconds
    lastCode              \* HTTP status of the response to the last call

vars == << connectedDevices, deviceGalleries, deviceLocations, galleryChanges,
           deviceNotifications, frontCameraRequests, backCameraRequests,
           uploadsDir, writes, now, lastCode >>

stores == << connectedDevices, deviceGalleries, deviceLocations, galleryChanges,
             deviceNotifications, frontCameraRequests, backCameraRequests >>

----------------------------------------------------------------------------
(* Bounds of the model *)

MaxClock == 2          \* the clock stops advancing at this instant
MaxHistory == 1        \* location fixes / notifications kept per device in the model
MaxGallery == 2        \* gallery items per device in the model
MaxFiles == 2          \* files in the uploads directory in the model
MaxRequests == 2       \* entries per camera request table in the model

(* Program constants *)

LOCATION_CAP == 100
NOTIFICATION_CAP == 200
GALLERY_CAP == 50
DEFAULT_BATTERY == 50

----------------------------------------------------------------------------
(* Inputs *)

DeviceIds == {"D1", "D2"}
NoId == ""                                  \* deviceId / requestId missing from the body
CallerRequestIds == {"r1"}
RandomSuffixes == {"x"}                     \* Math.random().toString(36).substr(2, 9)
OriginalNames == {"img.jpg"}
MulterOutcomes == {"stored", "nofile", "LIMIT_FILE_SIZE", "fileFilter"}

(* Every JavaScript object inherits the keys of Object.prototype: for such a
   key k, table[k] is a truthy value that is neither an own entry nor an array. *)
InheritedKeys == {"constructor"}

----------------------------------------------------------------------------
(* Helpers for tables and optional values *)

EmptyTable == <<>>

HasKey(table, k) == k \in DOMAIN table

Put(table, k, v) == [x \in (DOMAIN table) \cup {k} |-> IF x = k THEN v ELSE table[x]]

Delete_all(table, k) == EmptyTable

\* delete table[k]
Delete(table, k) == [x \in (DOMAIN table) \ {k} |-> table[x]]

Values(table) == {table[k] : k \in DOMAIN table}

\* JavaScript truthiness of an optional number: undefined and 0 are falsy
Truthy(opt) == opt # <<>> /\ opt[1] # 0

\* a || b on optional numbers
OrElse(opt, default) == IF Truthy(opt) THEN opt ELSE <<default>>

\* a || b on strings
OrElseStr(s, default) == IF s # "" THEN s ELSE default

\* formatSimpleTime: the display string has one-second resolution, the clock
\* counts half-seconds, so two instants can format to the same string.
formatSimpleTime(timestamp) == timestamp \div 2

----------------------------------------------------------------------------
(* Initial state: empty tables, as declared at module load *)

Init ==
    /\ connectedDevices = <<>>
    /\ deviceGalleries = EmptyTable
    /\ deviceLocations = EmptyTable
    /\ galleryChanges = EmptyTable
    /\ deviceNotifications = EmptyTable
    /\ frontCameraRequests = EmptyTable
    /\ backCameraRequests = EmptyTable
    /\ uploadsDir = {}
    /\ writes = {}
    /\ now = 0
    /\ lastCode = 0

\* Time passes between calls
Tick ==
    /\ now < MaxClock
    /\ now' = now + 1
    /\ UNCHANGED << stores, uploadsDir, writes, lastCode >>

----------------------------------------------------------------------------
(* Device registry *)

\* connectedDevices.find(d => d.id === deviceId): index of the first match, 0 if none
FindDevice(devices, deviceId) ==
    IF \E i \in 1..Len(devices) : devices[i].id = deviceId
    THEN CHOOSE i \in 1..Len(devices) :
            /\ devices[i].id = deviceId
            /\ \A j \in 1..(i - 1) : devices[j].id # deviceId
    ELSE 0

Registered(deviceId) == FindDevice(connectedDevices, deviceId) # 0

\* connectedDevices.filter(device => device.id !== deviceId)
WithoutDevice_keep(devices, deviceId) == devices

WithoutDevice(devices, deviceId) ==
    SelectSeq(devices, LAMBDA d : d.id # deviceId)

\* the device object literal of /api/register
NewDevice(deviceId, deviceName, batteryLevel) ==
    [ id |-> deviceId,
      deviceName |-> OrElseStr(deviceName, "Child Device"),
      batteryLevel |-> OrElse(batteryLevel, DEFAULT_BATTERY),
      status |-> "online",
      lastConnected |-> formatSimpleTime(now),
      connectedAt |-> formatSimpleTime(now),
      lastLocation |-> <<>>,
      lastNotification |-> <<>>,
      notificationCount |-> <<>> ]

Register_resetting(deviceId, deviceName, batteryLevel) ==
    /\ connectedDevices' =
         Append(WithoutDevice(connectedDevices, deviceId),
                NewDevice(deviceId, deviceName, batteryLevel))
    /\ deviceGalleries' = Delete(deviceGalleries, deviceId)
    /\ deviceLocations' = Delete(deviceLocations, deviceId)
    /\ deviceNotifications' = Delete(deviceNotifications, deviceId)
    /\ lastCode' = 200
    /\ UNCHANGED << galleryChanges, frontCameraRequests, backCameraRequests,
                    uploadsDir, now, writes >>

Register_unvalidated(deviceId, deviceName, batteryLevel) ==
    /\ connectedDevices' =
         Append(WithoutDevice(connectedDevices, deviceId),
                NewDevice(deviceId, deviceName, batteryLevel))
    /\ lastCode' = 200
    /\ UNCHANGED << deviceGalleries, deviceLocations, galleryChanges,
                    deviceNotifications, frontCameraRequests, backCameraRequests,
                    uploadsDir, now, writes >>

\* POST /api/register
Register(deviceId, deviceName, batteryLevel) ==
    /\ IF deviceId = NoId
       THEN /\ lastCode' = 400
            /\ UNCHANGED connectedDevices
       ELSE /\ connectedDevices' =
                Append(WithoutDevice(connectedDevices, deviceId),
                       NewDevice(deviceId, deviceName, batteryLevel))
            /\ lastCode' = 200
    /\ UNCHANGED << deviceGalleries, deviceLocations, galleryChanges,
                    deviceNotifications, frontCameraRequests, backCameraRequests,
                    uploadsDir, now, writes >>

\* the fields /api/battery-update assigns on an existing device
BatteryUpdated(device, deviceName, batteryLevel) ==
    [device EXCEPT !.batteryLevel = batteryLevel,
                   !.deviceName = OrElseStr(deviceName, device.deviceName),
                   !.lastConnected = formatSimpleTime(now),
                   !.status = "online"]

\* POST /api/battery-update
BatteryUpdate(deviceId, deviceName, batteryLevel) ==
    /\ IF deviceId = NoId
       THEN /\ lastCode' = 400
            /\ UNCHANGED connectedDevices
       ELSE LET i == FindDevice(connectedDevices, deviceId) IN
            /\ connectedDevices' =
                IF i # 0
                THEN [connectedDevices EXCEPT
                        ![i] = BatteryUpdated(connectedDevices[i], deviceName, batteryLevel)]
                ELSE Append(connectedDevices,
                        [ id |-> deviceId,
                          deviceName |-> OrElseStr(deviceName, "Child Device"),
                          batteryLevel |-> batteryLevel,
                          status |-> "online",
                          lastConnected |-> formatSimpleTime(now),
                          connectedAt |-> formatSimpleTime(now),
                          lastLocation |-> <<>>,
                          lastNotification |-> <<>>,
                          notificationCount |-> <<>> ])
            /\ lastCode' = 200
    /\ UNCHANGED << deviceGalleries, deviceLocations, galleryChanges,
                    deviceNotifications, frontCameraRequests, backCameraRequests,
                    uploadsDir, now, writes >>

----------------------------------------------------------------------------
(* Telemetry *)

LastN_head(seq, n) ==
    IF Len(seq) > n THEN SubSeq(seq, 1, n) ELSE seq

\* array.slice(-n); -0 is 0, so slice(-0) is the whole array
LastN(seq, n) ==
    IF n # 0 /\ Len(seq) > n THEN SubSeq(seq, Len(seq) - n + 1, Len(seq)) ELSE seq

FirstN_tail(seq, n) ==
    IF Len(seq) > n THEN SubSeq(seq, Len(seq) - n + 1, Len(seq)) ELSE seq

\* array.slice(0, n)
FirstN(seq, n) ==
    IF Len(seq) > n THEN SubSeq(seq, 1, n) ELSE seq

\* table[k] || []
ArrayAt(table, k) == IF HasKey(table, k) THEN table[k] ELSE <<>>

\* the locationData literal; the optional accuracy, speed, bearing, altitude,
\* timestamp, updateType and provider fields are not supplied
LocationData(latitude, longitude) ==
    [ latitude |-> latitude[1],
      longitude |-> longitude[1],
      timestamp |-> now,
      formattedTime |-> formatSimpleTime(now),
      updateType |-> "LIVE_UPDATE",
      provider |-> "unknown" ]

\* POST /api/location-update
LocationUpdate(deviceId, deviceName, latitude, longitude) ==
    /\ IF deviceId = NoId \/ ~Truthy(latitude) \/ ~Truthy(longitude)
       THEN /\ lastCode' = 400
            /\ UNCHANGED << connectedDevices, deviceLocations >>
       ELSE LET locationData == LocationData(latitude, longitude)
                pushed == Append(ArrayAt(deviceLocations, deviceId), locationData)
                i == FindDevice(connectedDevices, deviceId)
            IN
            /\ deviceLocations' =
                Put(deviceLocations, deviceId, LastN(pushed, LOCATION_CAP))
            /\ connectedDevices' =
                IF i # 0
                THEN [connectedDevices EXCEPT
                        ![i] = [@ EXCEPT !.lastLocation = <<locationData>>,
                                         !.lastConnected = formatSimpleTime(now),
                                         !.status = "online"]]
                ELSE Append(connectedDevices,
                        [ id |-> deviceId,
                          deviceName |-> OrElseStr(deviceName, "Child Device"),
                          batteryLevel |-> <<DEFAULT_BATTERY>>,
                          status |-> "online",
                          lastConnected |-> formatSimpleTime(now),
                          connectedAt |-> formatSimpleTime(now),
                          lastLocation |-> <<locationData>>,
                          lastNotification |-> <<>>,
                          notificationCount |-> <<>> ])
            /\ lastCode' = 200
    /\ UNCHANGED << deviceGalleries, galleryChanges, deviceNotifications,
                    frontCameraRequests, backCameraRequests, uploadsDir, now, writes >>

\* the notificationData literal; category, priority and timestamp are not supplied
NotificationData(packageName, appName, title, text) ==
    [ id |-> now,
      packageName |-> OrElseStr(packageName, "unknown"),
      appName |-> OrElseStr(appName, "Unknown App"),
      title |-> title,
      text |-> text,
      timestamp |-> now,
      formattedTime |-> formatSimpleTime(now),
      category |-> "general",
      priority |-> "normal" ]

\* POST /api/notification-update
NotificationUpdate(deviceId, packageName, appName, title, text) ==
    /\ IF deviceId = NoId \/ (title = "" /\ text = "")
       THEN /\ lastCode' = 400
            /\ UNCHANGED << connectedDevices, deviceNotifications >>
       ELSE LET notificationData == NotificationData(packageName, appName, title, text)
                unshifted == <<notificationData>> \o ArrayAt(deviceNotifications, deviceId)
                kept == FirstN(unshifted, NOTIFICATION_CAP)
                i == FindDevice(connectedDevices, deviceId)
            IN
            /\ deviceNotifications' = Put(deviceNotifications, deviceId, kept)
            /\ connectedDevices' =
                IF i # 0
                THEN [connectedDevices EXCEPT
                        ![i] = [@ EXCEPT !.lastNotification = <<notificationData>>,
                                         !.lastConnected = formatSimpleTime(now),
                                         !.status = "online",
                                         !.notificationCount = <<Len(kept)>>]]
                ELSE connectedDevices
            /\ lastCode' = 200
    /\ UNCHANGED << deviceGalleries, deviceLocations, galleryChanges,
                    frontCameraRequests, backCameraRequests, uploadsDir, now, writes >>

----------------------------------------------------------------------------
(* Removal *)

\* DELETE /api/delete-device
DeleteDevice(deviceId) ==
    /\ connectedDevices' = WithoutDevice(connectedDevices, deviceId)
    /\ deviceGalleries' = Delete(deviceGalleries, deviceId)
    /\ deviceLocations' = Delete(deviceLocations, deviceId)
    /\ galleryChanges' = Delete(galleryChanges, deviceId)
    /\ deviceNotifications' = Delete(deviceNotifications, deviceId)
    /\ lastCode' = IF Len(connectedDevices') < Len(connectedDevices) THEN 200 ELSE 404
    /\ UNCHANGED << frontCameraRequests, backCameraRequests, uploadsDir, now, writes >>

\* DELETE /api/clear
Clear ==
    /\ connectedDevices' = <<>>
    /\ deviceGalleries' = EmptyTable
    /\ deviceLocations' = EmptyTable
    /\ galleryChanges' = EmptyTable
    /\ deviceNotifications' = EmptyTable
    /\ lastCode' = 200
    /\ UNCHANGED << frontCameraRequests, backCameraRequests, uploadsDir, now, writes >>

----------------------------------------------------------------------------
(* The device registry with the telemetry that upserts into it.  D1 is the
   device under observation and takes every variation of the request bodies;
   D2 is a second device that registers, reports its battery and is deleted
   with default bodies.  The histories of D1 take MaxHistory entries. *)

RegisterBodies(d) ==
    IF d = "D1" THEN {<<"", <<>> >>, <<"Phone", <<80>> >>} ELSE {<<"", <<>> >>}

BatteryBodies(d) == IF d = "D1" THEN {<<>>, <<20>>} ELSE {<<>>}

NextRegistry ==
    \/ \E d \in DeviceIds : \E body \in RegisterBodies(d) :
          Register(d, body[1], body[2])
    \/ \E d \in DeviceIds : \E b \in BatteryBodies(d) :
          BatteryUpdate(d, "", b)
    \/ /\ Len(ArrayAt(deviceLocations, "D1")) < MaxHistory
       /\ LocationUpdate("D1", "", <<28>>, <<77>>)
    \/ /\ Len(ArrayAt(deviceNotifications, "D1")) < MaxHistory
       /\ NotificationUpdate("D1", "com.chat", "Chat", "Hi", "")
    \/ \E d \in DeviceIds : DeleteDevice(d)
    \/ Clear
    \/ Tick

SpecRegistry == Init /\ [][NextRegistry]_vars

----------------------------------------------------------------------------
(* Camera capture requests *)

\* the request literal stored by /api/request-front-camera and
\* /api/request-back-camera; capturedAt and filename are added by the upload
CameraRequest(deviceId, parentalDeviceId, cameraRequestId, cameraType) ==
    [ deviceId |-> deviceId,
      parentalDeviceId |-> parentalDeviceId,
      requestId |-> cameraRequestId,
      status |-> "pending",
      requestedAt |-> formatSimpleTime(now),
      timestamp |-> now,
      imageUrl |-> <<>>,
      message |-> <<>>,
      cameraType |-> cameraType,
      capturedAt |-> <<>>,
      filename |-> <<>> ]

\* requestId || `front_cam_${Date.now()}_${Math.random()...}`
GeneratedId(prefix, random) == prefix \o ToString(now) \o "_" \o random

DeviceExists_any(deviceId) == TRUE

\* const device = connectedDevices.find(d => d.id === deviceId); if (!device) 404
DeviceExists(deviceId) == Registered(deviceId)

\* the body of both request handlers
RequestCamera(table, prefix, cameraType, deviceId, parentalDeviceId, requestId, random) ==
    IF deviceId = NoId
    THEN /\ lastCode' = 400
         /\ table' = table
    ELSE IF ~DeviceExists(deviceId)
    THEN /\ lastCode' = 404
         /\ table' = table
    ELSE LET cameraRequestId == OrElseStr(requestId, GeneratedId(prefix, random)) IN
         /\ Cardinality(DOMAIN table \cup {cameraRequestId}) <= MaxRequests
         \* a generated id is practically unique: it is not in the table yet
         /\ requestId = NoId => ~HasKey(table, cameraRequestId)
         /\ table' = Put(table, cameraRequestId,
                         CameraRequest(deviceId, parentalDeviceId, cameraRequestId, cameraType))
         /\ lastCode' = 200

\* POST /api/request-front-camera
RequestFrontCamera(deviceId, parentalDeviceId, requestId, random) ==
    /\ RequestCamera(frontCameraRequests, "front_cam_", "front",
                     deviceId, parentalDeviceId, requestId, random)
    /\ UNCHANGED << connectedDevices, deviceGalleries, deviceLocations, galleryChanges,
                    deviceNotifications, backCameraRequests, uploadsDir, now, writes >>

\* POST /api/request-back-camera
RequestBackCamera(deviceId, parentalDeviceId, requestId, random) ==
    /\ RequestCamera(backCameraRequests, "back_cam_", "back",
                     deviceId, parentalDeviceId, requestId, random)
    /\ UNCHANGED << connectedDevices, deviceGalleries, deviceLocations, galleryChanges,
                    deviceNotifications, frontCameraRequests, uploadsDir, now, writes >>

----------------------------------------------------------------------------
(* Camera uploads *)

\* storage.filename: `${deviceId}_${timestamp}_${safeName}`; the original
\* names of the model hold no character the sanitising replace() changes
StoredFile(deviceId, originalName) ==
    [ prefix |-> OrElseStr(deviceId, "unknown"),
      timestamp |-> now,
      name |-> originalName ]

\* the imageData literal pushed into the gallery
CameraImage(file, originalName, type, requestId) ==
    [ filename |-> file,
      originalName |-> originalName,
      uploadedAt |-> formatSimpleTime(now),
      type |-> type,
      requestId |-> <<requestId>>,
      url |-> <<file>> ]

\* the four assignments of the "Update request status" block
Captured(request, file) ==
    [request EXCEPT !.status = "captured",
                    !.imageUrl = <<file>>,
                    !.capturedAt = <<formatSimpleTime(now)>>,
                    !.filename = <<file>>]

\* the catch block: "Mark request as failed"
Failed(request, message) ==
    [request EXCEPT !.status = "failed", !.message = <<message>>]

\* deviceGalleries[deviceId].unshift(imageData), then slice(0, 50)
GalleryUnshift(gallery, imageData) ==
    FirstN(<<imageData>> \o gallery, GALLERY_CAP)

UploadHandler_ledgerOnly(table, type, deviceId, requestId, originalName, file) ==
    IF deviceId = NoId \/ requestId = NoId \/ file = <<>>
    THEN /\ lastCode' = 400
         /\ UNCHANGED << table, deviceGalleries >>
    ELSE IF ~HasKey(table, requestId)
    THEN /\ lastCode' = 404
         /\ UNCHANGED << table, deviceGalleries >>
    ELSE /\ table' = [table EXCEPT ![requestId] = Captured(@, file[1])]
         /\ lastCode' = 200
         /\ UNCHANGED deviceGalleries

\* the route handler of a camera upload, which runs when multer has called
\* next(); file is req.file, <<>> when the body held no file part
UploadHandler(table, type, deviceId, requestId, originalName, file) ==
    IF deviceId = NoId \/ requestId = NoId \/ file = <<>>
    THEN /\ lastCode' = 400
         /\ UNCHANGED << table, deviceGalleries >>
    ELSE IF ~HasKey(table, requestId)
    THEN /\ lastCode' = 404
         /\ UNCHANGED << table, deviceGalleries >>
    ELSE IF deviceId \in InheritedKeys
    THEN \* deviceGalleries[deviceId] is inherited and has no unshift:
         \* TypeError after the request was updated, handled by the catch block
         /\ table' = [table EXCEPT ![requestId] =
                         Failed(Captured(@, file[1]), "unshift is not a function")]
         /\ lastCode' = 500
         /\ UNCHANGED deviceGalleries
    ELSE /\ Len(ArrayAt(deviceGalleries, deviceId)) < MaxGallery
         /\ table' = [table EXCEPT ![requestId] = Captured(@, file[1])]
         /\ deviceGalleries' =
              Put(deviceGalleries, deviceId,
                  GalleryUnshift(ArrayAt(deviceGalleries, deviceId),
                                 CameraImage(file[1], originalName, type, requestId)))
         /\ lastCode' = 200

\* upload.single(field) followed by the route handler, for a call that no
\* other call overlaps.  multer either stores the file, finds no file part, or
\* fails (file too large, fileFilter rejection); a failure goes to the
\* error-handling middleware and the route handler does not run.
UploadCamera(table, type, deviceId, requestId, originalName, multer) ==
    LET file == StoredFile(deviceId, originalName) IN
    IF multer = "LIMIT_FILE_SIZE"
    THEN /\ lastCode' = 400
         /\ UNCHANGED << table, deviceGalleries, uploadsDir >>
    ELSE IF multer = "fileFilter"
    THEN /\ lastCode' = 500
         /\ UNCHANGED << table, deviceGalleries, uploadsDir >>
    ELSE
    /\ uploadsDir' = IF multer = "stored" THEN uploadsDir \cup {file} ELSE uploadsDir
    /\ Cardinality(uploadsDir') <= MaxFiles
    /\ UploadHandler(table, type, deviceId, requestId, originalName,
                     IF multer = "stored" THEN <<file>> ELSE <<>>)

\* POST /api/upload-front-camera
UploadFrontCamera(deviceId, requestId, originalName, multer) ==
    /\ UploadCamera(frontCameraRequests, "front_camera",
                    deviceId, requestId, originalName, multer)
    /\ UNCHANGED << connectedDevices, deviceLocations, galleryChanges,
                    deviceNotifications, backCameraRequests, now, writes >>

UploadBackCamera_frontLedger(deviceId, requestId, originalName, multer) ==
    /\ UploadCamera(frontCameraRequests, "back_camera",
                    deviceId, requestId, originalName, multer)
    /\ UNCHANGED << connectedDevices, deviceLocations, galleryChanges,
                    deviceNotifications, backCameraRequests, now, writes >>

\* POST /api/upload-back-camera
UploadBackCamera(deviceId, requestId, originalName, multer) ==
    /\ UploadCamera(backCameraRequests, "back_camera",
                    deviceId, requestId, originalName, multer)
    /\ UNCHANGED << connectedDevices, deviceLocations, galleryChanges,
                    deviceNotifications, frontCameraRequests, now, writes >>

----------------------------------------------------------------------------
(* Polling *)

\* the test the check routes make, negated: !table[requestId] is false for an
\* own entry and for a key inherited from Object.prototype
Found(table, requestId) ==
    HasKey(table, requestId) \/ requestId \in InheritedKeys

\* the status a check-request route reports: the stored status, the status
\* member of an inherited value (there is none), or "not found" with HTTP 404
StatusOf(table, requestId) ==
    IF HasKey(table, requestId) THEN table[requestId].status
    ELSE IF Found(table, requestId) THEN "undefined"
    ELSE "not found"

\* GET /api/check-camera-request/:requestId
CheckCameraRequest(requestId) ==
    /\ lastCode' = IF Found(frontCameraRequests, requestId) THEN 200 ELSE 404
    /\ UNCHANGED << stores, uploadsDir, now, writes >>

\* GET /api/check-back-camera-request/:requestId
CheckBackCameraRequest(requestId) ==
    /\ lastCode' = IF Found(backCameraRequests, requestId) THEN 200 ELSE 404
    /\ UNCHANGED << stores, uploadsDir, now, writes >>

IsPendingFor_anyStatus(request, deviceId) == request.deviceId = deviceId

\* request => request.deviceId === deviceId && request.status === 'pending'
IsPendingFor(request, deviceId) ==
    request.deviceId = deviceId /\ request.status = "pending"

\* Object.values(table).filter(...): the requests a pending-requests route returns
PendingRequests(table, deviceId) ==
    {request \in Values(table) : IsPendingFor(request, deviceId)}

\* GET /api/pending-camera-requests/:deviceId
PendingCameraRequests(deviceId) ==
    /\ lastCode' = 200
    /\ UNCHANGED << stores, uploadsDir, now, writes >>

\* GET /api/pending-back-camera-requests/:deviceId
PendingBackCameraRequests(deviceId) ==
    /\ lastCode' = 200
    /\ UNCHANGED << stores, uploadsDir, now, writes >>

----------------------------------------------------------------------------
(* Gallery listing *)

\* files.filter(file => file.startsWith(deviceId + '_'))
DeviceFiles(deviceId) == {file \in uploadsDir : file.prefix = deviceId}

\* filename.includes('back'): of the names of the model only those of back
\* camera pictures hold the word
IncludesBack(file) == file.name = "back.jpg"

\* the gallery entry built from a stored file
FileImage(file) ==
    [ filename |-> file,
      originalName |-> file.name,
      uploadedAt |-> formatSimpleTime(file.timestamp),
      type |-> IF IncludesBack(file) THEN "back_camera" ELSE "front_camera",
      requestId |-> <<>>,
      url |-> <<file>> ]

\* readdirSync order, then the stable sort on uploadedAt, latest first
RECURSIVE SortedFiles(_)
SortedFiles(files) ==
    IF files = {} THEN <<>>
    ELSE LET first == CHOOSE f \in files : \A g \in files :
                         \/ formatSimpleTime(f.timestamp) > formatSimpleTime(g.timestamp)
                         \/ /\ formatSimpleTime(f.timestamp) = formatSimpleTime(g.timestamp)
                            /\ f.timestamp <= g.timestamp
         IN <<first>> \o SortedFiles(files \ {first})

RECURSIVE MapFileImage(_)
MapFileImage(files) ==
    IF files = <<>> THEN <<>>
    ELSE <<FileImage(Head(files))>> \o MapFileImage(Tail(files))

GalleriesAfterScan_always(deviceId) ==
    IF DeviceFiles(deviceId) # {}
    THEN Put(deviceGalleries, deviceId, MapFileImage(SortedFiles(DeviceFiles(deviceId))))
    ELSE deviceGalleries

\* deviceGalleries after the directory-scan fallback of GET /api/gallery
GalleriesAfterScan(deviceId) ==
    IF ArrayAt(deviceGalleries, deviceId) = <<>> /\ DeviceFiles(deviceId) # {}
    THEN Put(deviceGalleries, deviceId, MapFileImage(SortedFiles(DeviceFiles(deviceId))))
    ELSE deviceGalleries

\* the images GET /api/gallery/:deviceId returns
GalleryList(deviceId) == ArrayAt(GalleriesAfterScan(deviceId), deviceId)

\* GET /api/gallery/:deviceId
GetGallery(deviceId) ==
    /\ deviceGalleries' = GalleriesAfterScan(deviceId)
    /\ lastCode' = 200
    /\ UNCHANGED << connectedDevices, deviceLocations, galleryChanges, deviceNotifications,
                    frontCameraRequests, backCameraRequests, uploadsDir, now, writes >>

----------------------------------------------------------------------------
(* The capture protocol: registration, requests, uploads, polling *)

(* D1 is the device that uploads; capture requests are made for D1 and, on
   the front camera, for D2, so that an upload can name a request made for
   another device.  All calls arrive within one clock instant. *)

UploadDeviceIds == {"D1"} \cup InheritedKeys

UploadRequestIds ==
    {"nonexistent"} \cup DOMAIN frontCameraRequests \cup DOMAIN backCameraRequests

\* the <<deviceId, requestId, multer outcome>> of the uploads to a route: a
\* stored file with every id, a multer failure or a missing file part with D1
\* and a request of the route's table
UploadBodies(table) ==
    {<<d, r, "stored">> : d \in UploadDeviceIds, r \in UploadRequestIds}
        \cup {<<"D1", r, m>> : r \in DOMAIN table, m \in MulterOutcomes \ {"stored"}}

NextCapture ==
    \/ \E d \in DeviceIds : Register(d, "", <<>>)
    \/ \E d \in DeviceIds : DeleteDevice(d)
    \/ \E d \in DeviceIds, r \in CallerRequestIds \cup {NoId}, x \in RandomSuffixes :
          RequestFrontCamera(d, "P1", r, x)
    \/ \E r \in CallerRequestIds, x \in RandomSuffixes :
          RequestBackCamera("D1", "P1", r, x)
    \/ \E body \in UploadBodies(frontCameraRequests), n \in OriginalNames :
          UploadFrontCamera(body[1], body[2], n, body[3])
    \/ \E body \in UploadBodies(backCameraRequests), n \in OriginalNames :
          UploadBackCamera(body[1], body[2], n, body[3])
    \/ CheckCameraRequest("r1")
    \/ CheckBackCameraRequest("r1")
    \/ PendingCameraRequests("D1")
    \/ PendingBackCameraRequests("D1")
    \/ GetGallery("D1")

SpecCapture == Init /\ [][NextCapture]_vars

----------------------------------------------------------------------------
(* The program of part_001: registry, telemetry and capture protocol *)

Next == NextRegistry \/ NextCapture

Spec == Init /\ [][Next]_vars

----------------------------------------------------------------------------
(* server.js: registration and the front camera protocol *)

\* the newDevice literal of /api/register in server.js
ServerNewDevice(deviceId, deviceName, batteryLevel) ==
    [ id |-> deviceId,
      deviceName |-> OrElseStr(deviceName, "Child Device"),
      batteryLevel |-> OrElse(batteryLevel, DEFAULT_BATTERY),
      status |-> "online",
      lastConnected |-> formatSimpleTime(now),
      connectedAt |-> formatSimpleTime(now) ]

\* POST /api/register
ServerRegister(deviceId, deviceName, batteryLevel) ==
    /\ IF deviceId = NoId
       THEN /\ lastCode' = 400
            /\ UNCHANGED connectedDevices
       ELSE /\ connectedDevices' =
                 Append(WithoutDevice(connectedDevices, deviceId),
                        ServerNewDevice(deviceId, deviceName, batteryLevel))
            /\ lastCode' = 200
    /\ UNCHANGED << deviceGalleries, deviceLocations, galleryChanges, deviceNotifications,
                    frontCameraRequests, backCameraRequests, uploadsDir, now, writes >>

\* the request literal stored by /api/request-front-camera
ServerCameraRequest(deviceId, parentalDeviceId, cameraRequestId) ==
    [ deviceId |-> deviceId,
      parentalDeviceId |-> parentalDeviceId,
      requestId |-> cameraRequestId,
      status |-> "pending",
      requestedAt |-> formatSimpleTime(now),
      timestamp |-> now,
      imageUrl |-> <<>>,
      message |-> <<>>,
      capturedAt |-> <<>>,
      filename |-> <<>> ]

\* POST /api/request-front-camera: the deviceId is checked for presence only
ServerRequestFrontCamera(deviceId, parentalDeviceId, requestId, random) ==
    /\ IF deviceId = NoId
       THEN /\ lastCode' = 400
            /\ UNCHANGED frontCameraRequests
       ELSE LET cameraRequestId == OrElseStr(requestId, GeneratedId("cam_", random)) IN
            /\ Cardinality(DOMAIN frontCameraRequests \cup {cameraRequestId}) <= MaxRequests
            /\ requestId = NoId => ~HasKey(frontCameraRequests, cameraRequestId)
            /\ frontCameraRequests' =
                 Put(frontCameraRequests, cameraRequestId,
                     ServerCameraRequest(deviceId, parentalDeviceId, cameraRequestId))
            /\ lastCode' = 200
    /\ UNCHANGED << connectedDevices, deviceGalleries, deviceLocations, galleryChanges,
                    deviceNotifications, backCameraRequests, uploadsDir, now, writes >>

\* POST /api/upload-front-camera: upload.single, then the route handler
ServerUploadFrontCamera(deviceId, requestId, originalName, multer) ==
    LET file == StoredFile(deviceId, originalName) IN
    /\ IF multer = "LIMIT_FILE_SIZE"
       THEN /\ lastCode' = 400
            /\ UNCHANGED << frontCameraRequests, deviceGalleries, uploadsDir >>
       ELSE IF multer = "fileFilter"
       THEN /\ lastCode' = 500
            /\ UNCHANGED << frontCameraRequests, deviceGalleries, uploadsDir >>
       ELSE
       /\ uploadsDir' = IF multer = "stored" THEN uploadsDir \cup {file} ELSE uploadsDir
       /\ Cardinality(uploadsDir') <= MaxFiles
       /\ IF deviceId = NoId \/ requestId = NoId \/ multer = "nofile"
          THEN /\ lastCode' = 400
               /\ UNCHANGED << frontCameraRequests, deviceGalleries >>
          ELSE IF ~HasKey(frontCameraRequests, requestId)
          THEN /\ lastCode' = 404
               /\ UNCHANGED << frontCameraRequests, deviceGalleries >>
          ELSE IF deviceId \in InheritedKeys
          THEN \* deviceGalleries[deviceId] is inherited and has no push
               /\ frontCameraRequests' =
                    [frontCameraRequests EXCEPT ![requestId] =
                        Failed(Captured(@, file), "push is not a function")]
               /\ lastCode' = 500
               /\ UNCHANGED deviceGalleries
          ELSE /\ Len(ArrayAt(deviceGalleries, deviceId)) < MaxGallery
               /\ frontCameraRequests' =
                    [frontCameraRequests EXCEPT ![requestId] = Captured(@, file)]
               /\ deviceGalleries' =
                    Put(deviceGalleries, deviceId,
                        Append(ArrayAt(deviceGalleries, deviceId),
                               CameraImage(file, originalName, "front_camera", requestId)))
               /\ lastCode' = 200
    /\ UNCHANGED << connectedDevices, deviceLocations, galleryChanges,
                    deviceNotifications, backCameraRequests, now, writes >>

NextServer ==
    \/ \E d \in DeviceIds : ServerRegister(d, "", <<>>)
    \/ \E d \in DeviceIds, r \in CallerRequestIds \cup {NoId}, x \in RandomSuffixes :
          ServerRequestFrontCamera(d, "P1", r, x)
    \/ \E body \in UploadBodies(frontCameraRequests), n \in OriginalNames :
          ServerUploadFrontCamera(body[1], body[2], n, body[3])

SpecServer == Init /\ [][NextServer]_vars

----------------------------------------------------------------------------
(* Claims about the device registry, checked under SpecRegistry *)

\* C1: after any sequence of register, battery-update, location-update,
\* notification-update, delete-device and clear calls the registry holds at
\* most one Device per id.
C1_OneDevicePerId ==
    \A i, j \in 1..Len(connectedDevices) :
        connectedDevices[i].id = connectedDevices[j].id => i = j

\* D1 has a location history, so it was in the registry before the last
\* register call (only delete-device and clear remove it, and they drop the
\* history); the snapshot of that location is gone from its record, so D1 was
\* registered again, and the registry holds one D1 record after the D2 record.
C1_Witness ==
    /\ lastCode = 200
    /\ HasKey(deviceLocations, "D1")
    /\ Len(connectedDevices) = 2
    /\ connectedDevices[1].id = "D2"
    /\ connectedDevices[2].id = "D1"
    /\ connectedDevices[2].lastLocation = <<>>

\* the Device record stored under deviceId
DeviceOf(devices, deviceId) == devices[FindDevice(devices, deviceId)]

\* C2: re-registering an already registered deviceId while omitting the
\* optional fields keeps displayName, batteryLevel, registeredAt and the
\* lastLocation / lastNotification snapshots of the existing Device.
C2_ReRegisterKeepsFields ==
    [][ \A d \in DeviceIds :
          (Registered(d) /\ Register(d, "", <<>>)) =>
             LET old == DeviceOf(connectedDevices, d)
                 new == DeviceOf(connectedDevices', d)
             IN /\ new.deviceName = old.deviceName
                /\ new.batteryLevel = old.batteryLevel
                /\ new.connectedAt = old.connectedAt
                /\ new.lastLocation = old.lastLocation
                /\ new.lastNotification = old.lastNotification ]_vars

----------------------------------------------------------------------------
(* Claims about the capture protocol, checked under SpecCapture *)

\* the request is captured and the gallery of the device it was created for
\* holds the item of its file, of the kind of its facing, carrying its id
Fulfilled(request, kind, galleries) ==
    /\ request.status = "captured"
    /\ request.imageUrl # <<>>
    /\ request.capturedAt # <<>>
    /\ \E i \in 1..Len(ArrayAt(galleries, request.deviceId)) :
          LET item == ArrayAt(galleries, request.deviceId)[i] IN
          /\ <<item.filename>> = request.imageUrl
          /\ item.type = kind
          /\ item.requestId = <<request.requestId>>

\* C3: when an upload naming a request created for a registered device
\* succeeds, the request is captured with imageUrl and capturedAt set, and the
\* gallery of the request's device holds the item of that file with the kind
\* of the facing and the request's id, whatever deviceId the upload sends.
C3_UploadFillsGalleryOfRequestDevice ==
    [][ \A d \in UploadDeviceIds, n \in OriginalNames :
          /\ \A r \in DOMAIN frontCameraRequests :
                ( /\ Registered(frontCameraRequests[r].deviceId)
                  /\ UploadFrontCamera(d, r, n, "stored")
                  /\ lastCode' = 200 )
                => Fulfilled(frontCameraRequests'[r], "front_camera", deviceGalleries')
          /\ \A r \in DOMAIN backCameraRequests :
                ( /\ Registered(backCameraRequests[r].deviceId)
                  /\ UploadBackCamera(d, r, n, "stored")
                  /\ lastCode' = 200 )
                => Fulfilled(backCameraRequests'[r], "back_camera", deviceGalleries') ]_vars

\* the capture ledger: the requests of both facings
LedgerRequests == Values(frontCameraRequests) \cup Values(backCameraRequests)

Facings == {"front", "back"}

\* what the pending-requests route of a facing returns for a device
ListPending(deviceId, facing) ==
    PendingRequests(IF facing = "front" THEN frontCameraRequests ELSE backCameraRequests,
                    deviceId)

\* C4: in every reachable state the pending list of a device and a facing is
\* exactly the set of ledger requests of that device and that facing whose
\* status is pending.
C4_ListPendingExact ==
    \A d \in DeviceIds, f \in Facings :
        ListPending(d, f) =
            {request \in LedgerRequests : /\ request.deviceId = d
                                          /\ request.cameraType = f
                                          /\ request.status = "pending"}

\* the front ledger holds a pending request of D1, which is the front list of
\* D1, next to a request of D2; the back request r1 of D1 was captured and is
\* in no list
C4_Witness ==
    /\ \E p, q \in DOMAIN frontCameraRequests :
          /\ frontCameraRequests[p].deviceId = "D1"
          /\ frontCameraRequests[p].status = "pending"
          /\ frontCameraRequests[q].deviceId = "D2"
          /\ ListPending("D1", "front") = {frontCameraRequests[p]}
    /\ HasKey(backCameraRequests, "r1")
    /\ backCameraRequests["r1"].status = "captured"
    /\ ListPending("D1", "back") = {}

\* C5: an upload naming a request id that was never created is answered 404
\* and changes nothing: the tables are as before and every gallery lists what
\* it listed before.
C5_UnknownRequestUploadChangesNothing ==
    [][ \A d \in UploadDeviceIds, n \in OriginalNames :
          ( \/ UploadFrontCamera(d, "nonexistent", n, "stored")
            \/ UploadBackCamera(d, "nonexistent", n, "stored") )
          => /\ lastCode' = 404
             /\ UNCHANGED stores
             /\ \A g \in DeviceIds : GalleryList(g)' = GalleryList(g) ]_vars

\* every status change between two tables is pending -> captured or
\* pending -> failed
OnlyTerminalSteps(old, new) ==
    \A r \in DOMAIN old :
        /\ r \in DOMAIN new
        /\ new[r].status # old[r].status
              => old[r].status = "pending" /\ new[r].status \in {"captured", "failed"}

\* C6: a captured or failed request never changes status again; the only
\* status transitions are pending -> captured and pending -> failed.
C6_TerminalStatesFinal ==
    [][ /\ OnlyTerminalSteps(frontCameraRequests, frontCameraRequests')
        /\ OnlyTerminalSteps(backCameraRequests, backCameraRequests') ]_vars

Terminal(request) == request.status \in {"captured", "failed"}

\* no two gallery items of a kind carry the same request id
OneItemPerRequest(galleries) ==
    \A d1, d2 \in DOMAIN galleries :
        \A i \in 1..Len(galleries[d1]), j \in 1..Len(galleries[d2]) :
            ( /\ galleries[d1][i].requestId # <<>>
              /\ galleries[d1][i].requestId = galleries[d2][j].requestId
              /\ galleries[d1][i].type = galleries[d2][j].type )
            => d1 = d2 /\ i = j

\* C7: an upload naming a captured or failed request changes no table, so the
\* request keeps imageUrl and capturedAt and no gallery item is added; at most
\* one gallery item carries a request id.
C7_UploadOnTerminalChangesNothing ==
    [][ /\ \A d \in UploadDeviceIds, n \in OriginalNames :
              /\ \A r \in DOMAIN frontCameraRequests :
                    (Terminal(frontCameraRequests[r]) /\ UploadFrontCamera(d, r, n, "stored"))
                    => UNCHANGED stores
              /\ \A r \in DOMAIN backCameraRequests :
                    (Terminal(backCameraRequests[r]) /\ UploadBackCamera(d, r, n, "stored"))
                    => UNCHANGED stores
        /\ OneItemPerRequest(deviceGalleries') ]_vars

\* a failed request of the old table is reported failed from the new table
\* and is not in the pending list of its device
FailedStaysFailed(old, new) ==
    \A r \in DOMAIN old :
        old[r].status = "failed"
        => /\ StatusOf(new, r) = "failed"
           /\ \A d \in DeviceIds : \A request \in PendingRequests(new, d) :
                 request.requestId # r

\* C8: an upload that ends in the handler's catch block (HTTP 500) leaves the
\* request failed with a message; from then on its status is reported as
\* failed and no pending list returns it.
C8_ProcessingErrorFailsForGood ==
    [][ /\ \A d \in UploadDeviceIds, n \in OriginalNames :
              /\ \A r \in DOMAIN frontCameraRequests :
                    (UploadFrontCamera(d, r, n, "stored") /\ lastCode' = 500)
                    => /\ frontCameraRequests'[r].status = "failed"
                       /\ frontCameraRequests'[r].message # <<>>
              /\ \A r \in DOMAIN backCameraRequests :
                    (UploadBackCamera(d, r, n, "stored") /\ lastCode' = 500)
                    => /\ backCameraRequests'[r].status = "failed"
                       /\ backCameraRequests'[r].message # <<>>
        /\ FailedStaysFailed(frontCameraRequests, frontCameraRequests')
        /\ FailedStaysFailed(backCameraRequests, backCameraRequests') ]_vars

\* the ways the file write of multer fails
WriteFailures == {"LIMIT_FILE_SIZE", "fileFilter"}

\* C9: when the file write of an upload for a pending request fails, the
\* request is failed once the upload call has returned.
C9_FailedWriteFailsRequest ==
    [][ \A n \in OriginalNames, m \in WriteFailures :
          /\ \A r \in DOMAIN frontCameraRequests :
                ( /\ frontCameraRequests[r].status = "pending"
                  /\ UploadFrontCamera("D1", r, n, m) )
                => frontCameraRequests'[r].status = "failed"
          /\ \A r \in DOMAIN backCameraRequests :
                ( /\ backCameraRequests[r].status = "pending"
                  /\ UploadBackCamera("D1", r, n, m) )
                => backCameraRequests'[r].status = "failed" ]_vars

----------------------------------------------------------------------------
(* Claims about capture requests of server.js, checked under SpecServer *)

\* C10: a front camera request for a deviceId that is not in the registry is
\* answered 404 and inserts nothing into the request table.
C10_RequestForUnknownDeviceRejected ==
    [][ \A d \in DeviceIds, r \in CallerRequestIds \cup {NoId}, x \in RandomSuffixes :
          (~Registered(d) /\ ServerRequestFrontCamera(d, "P1", r, x))
          => /\ lastCode' = 404
             /\ UNCHANGED frontCameraRequests ]_vars

----------------------------------------------------------------------------
(* The location history at its cap.  The devices number their fixes: the
   k-th location update of a device carries latitude k, so the latitude of
   the newest fix is the number of updates the history has taken. *)

MaxFixes == 150        \* location updates D1 sends

\* the number of fixes appended to the history of deviceId so far
FixesSent(deviceId) ==
    LET history == ArrayAt(deviceLocations, deviceId) IN
    IF history = <<>> THEN 0 ELSE history[Len(history)].latitude

NextLocationHistory ==
    \/ /\ FixesSent("D1") < MaxFixes
       /\ LocationUpdate("D1", "", <<FixesSent("D1") + 1>>, <<77>>)
    \/ /\ FixesSent("D2") < 1
       /\ LocationUpdate("D2", "", <<FixesSent("D2") + 1>>, <<77>>)
    \/ \E d \in DeviceIds : Register(d, "", <<>>)

SpecLocationHistory == Init /\ [][NextLocationHistory]_vars

Min(a, b) == IF a < b THEN a ELSE b

\* the history of deviceId holds the min(n, 100) most recent of its n fixes,
\* oldest first
RecentFixes(locations, deviceId) ==
    LET history == ArrayAt(locations, deviceId)
        n == IF history = <<>> THEN 0 ELSE history[Len(history)].latitude
    IN /\ Len(history) <= LOCATION_CAP
       /\ Len(history) = Min(n, LOCATION_CAP)
       /\ \A i \in 1..Len(history) : history[i].latitude = n - Len(history) + i

\* C11: a location history never holds more than 100 fixes; an update
\* appends its fix at the end and, when the history is full, evicts the
\* oldest fix, so that after n updates the history holds the min(n, 100)
\* most recent fixes in arrival order.
C11_LocationHistoryBounded ==
    [][ \A d \in DeviceIds :
          /\ \A k \in 1..(FixesSent(d) + 1) :
                LocationUpdate(d, "", <<k>>, <<77>>) =>
                   LET history == ArrayAt(deviceLocations, d)
                       fix == LocationData(<<k>>, <<77>>)
                   IN deviceLocations'[d] =
                         IF Len(history) < LOCATION_CAP
                         THEN Append(history, fix)
                         ELSE Append(Tail(history), fix)
          /\ RecentFixes(deviceLocations', d) ]_vars

\* D1 has sent 150 fixes: the history holds the fixes 51 to 150
C11_Witness ==
    /\ FixesSent("D1") = 150
    /\ Len(deviceLocations["D1"]) = 100
    /\ deviceLocations["D1"][1].latitude = 51
    /\ lastCode = 200

----------------------------------------------------------------------------
(* The notification list at its cap.  D1 numbers its notifications: the k-th
   notification carries the title ToString(k), so the title of the newest
   entry gives the number of notifications the list has taken. *)

MaxNotes == 250        \* notifications D1 sends

\* the number of notifications unshifted into the list of deviceId so far
NotesSent(deviceId) ==
    LET list == ArrayAt(deviceNotifications, deviceId) IN
    IF list = <<>> THEN 0
    ELSE CHOOSE k \in 1..(MaxNotes + 1) : ToString(k) = list[1].title

NextNotificationHistory ==
    \/ /\ NotesSent("D1") < MaxNotes
       /\ NotificationUpdate("D1", "com.chat", "Chat", ToString(NotesSent("D1") + 1), "")
    \/ /\ NotesSent("D2") < 1
       /\ NotificationUpdate("D2", "com.chat", "Chat", ToString(NotesSent("D2") + 1), "")
    \/ \E d \in DeviceIds : Register(d, "", <<>>)

SpecNotificationHistory == Init /\ [][NextNotificationHistory]_vars

\* the list of deviceId holds the min(n, 200) most recent of its n
\* notifications, newest first
RecentNotes(notifications, deviceId) ==
    LET list == ArrayAt(notifications, deviceId)
        n == IF list = <<>> THEN 0
             ELSE CHOOSE k \in 1..(MaxNotes + 1) : ToString(k) = list[1].title
    IN /\ Len(list) <= NOTIFICATION_CAP
       /\ Len(list) = Min(n, NOTIFICATION_CAP)
       /\ \A i \in 1..Len(list) : list[i].title = ToString(n - i + 1)

\* C12: a notification list is newest first and never holds more than 200
\* entries; an update puts its notification at the front and, when the list
\* is full, drops the entry at the tail (the oldest), so that the list holds
\* the min(n, 200) most recent notifications.
C12_NotificationsNewestFirst ==
    [][ \A d \in DeviceIds :
          /\ \A k \in 1..(NotesSent(d) + 1) :
                NotificationUpdate(d, "com.chat", "Chat", ToString(k), "") =>
                   LET list == ArrayAt(deviceNotifications, d)
                       note == NotificationData("com.chat", "Chat", ToString(k), "")
                   IN deviceNotifications'[d] =
                         IF Len(list) < NOTIFICATION_CAP
                         THEN <<note>> \o list
                         ELSE <<note>> \o SubSeq(list, 1, Len(list) - 1)
          /\ RecentNotes(deviceNotifications', d) ]_vars

\* D1 has sent 250 notifications: the list holds 250 down to 51
C12_Witness ==
    /\ NotesSent("D1") = 250
    /\ Len(deviceNotifications["D1"]) = 200
    /\ deviceNotifications["D1"][1].title = "250"
    /\ deviceNotifications["D1"][2].title = "249"
    /\ deviceNotifications["D1"][200].title = "51"
    /\ lastCode = 200

----------------------------------------------------------------------------
(* The gallery change log *)

CHANGES_CAP == 50

\* the key a missing deviceId indexes a table with
TableKey(deviceId) == IF deviceId = NoId THEN "undefined" ELSE deviceId

\* the change literal
Change(action, imagePath, imageType, timestamp) ==
    [ action |-> action,
      imagePath |-> imagePath,
      imageType |-> OrElseStr(imageType, "photo"),
      timestamp |-> OrElse(timestamp, now)[1],
      reportedAt |-> formatSimpleTime(now),
      formattedTime |-> formatSimpleTime(OrElse(timestamp, now)[1]) ]

ChangeLogPush_uncapped(log, change) == Append(log, change)

\* galleryChanges[deviceId].push(change), then slice(-50) beyond 50 entries
ChangeLogPush(log, change) == LastN(Append(log, change), CHANGES_CAP)

\* POST /api/gallery-changes; the body is not validated
GalleryChanges(deviceId, action, imagePath, imageType, timestamp) ==
    LET key == TableKey(deviceId) IN
    /\ IF key \in InheritedKeys
       THEN \* both tables yield an inherited value without push: TypeError
            /\ lastCode' = 500
            /\ UNCHANGED << deviceGalleries, galleryChanges >>
       ELSE /\ deviceGalleries' =
                 IF HasKey(deviceGalleries, key) THEN deviceGalleries
                 ELSE Put(deviceGalleries, key, <<>>)
            /\ galleryChanges' =
                 Put(galleryChanges, key,
                     ChangeLogPush(ArrayAt(galleryChanges, key),
                                   Change(action, imagePath, imageType, timestamp)))
            /\ lastCode' = 200
    /\ UNCHANGED << connectedDevices, deviceLocations, deviceNotifications,
                    frontCameraRequests, backCameraRequests, uploadsDir, now, writes >>

\* DELETE /api/clear-changes/:deviceId
ClearChanges(deviceId) ==
    /\ galleryChanges' = Delete(galleryChanges, deviceId)
    /\ lastCode' = 200
    /\ UNCHANGED << connectedDevices, deviceGalleries, deviceLocations, deviceNotifications,
                    frontCameraRequests, backCameraRequests, uploadsDir, now, writes >>

(* The change log at its cap.  The devices number their events: the k-th
   report of a device carries timestamp k. *)

MaxEvents == 60        \* change events D1 reports

\* the number of events pushed into the log of deviceId so far
EventsSent(deviceId) ==
    LET log == ArrayAt(galleryChanges, deviceId) IN
    IF log = <<>> THEN 0 ELSE log[Len(log)].timestamp

NextChangeLog ==
    \/ /\ EventsSent("D1") < MaxEvents
       /\ GalleryChanges("D1", "added", "/sdcard/a.jpg", "", <<EventsSent("D1") + 1>>)
    \/ /\ EventsSent("D2") < 1
       /\ GalleryChanges("D2", "deleted", "/sdcard/a.jpg", "video", <<EventsSent("D2") + 1>>)
    \/ ClearChanges("D2")

SpecChangeLog == Init /\ [][NextChangeLog]_vars

\* the log of deviceId holds the min(n, 50) most recent of its n events,
\* oldest first
RecentEvents(changes, deviceId) ==
    LET log == ArrayAt(changes, deviceId)
        n == IF log = <<>> THEN 0 ELSE log[Len(log)].timestamp
    IN /\ Len(log) <= CHANGES_CAP
       /\ Len(log) = Min(n, CHANGES_CAP)
       /\ \A i \in 1..Len(log) : log[i].timestamp = n - Len(log) + i

\* C13: a change log never holds more than 50 events; a report appends its
\* event at the end and, when the log is full, evicts the oldest event, so
\* that after n reports the log holds the min(n, 50) most recent events in
\* report order.
C13_ChangeLogBounded ==
    [][ \A d \in DeviceIds :
          /\ \A k \in 1..(EventsSent(d) + 1) :
                GalleryChanges(d, "added", "/sdcard/a.jpg", "", <<k>>) =>
                   LET log == ArrayAt(galleryChanges, d)
                       change == Change("added", "/sdcard/a.jpg", "", <<k>>)
                   IN galleryChanges'[d] =
                         IF Len(log) < CHANGES_CAP
                         THEN Append(log, change)
                         ELSE Append(Tail(log), change)
          /\ RecentEvents(galleryChanges', d) ]_vars

\* D1 has reported 60 events: the log holds the events 11 to 60
C13_Witness ==
    /\ EventsSent("D1") = 60
    /\ Len(galleryChanges["D1"]) = 50
    /\ galleryChanges["D1"][1].timestamp = 11
    /\ lastCode = 200

----------------------------------------------------------------------------
(* The gallery after a camera upload of server.js, checked under SpecServer *)

\* seq without its j-th element
RemoveAt(seq, j) == SubSeq(seq, 1, j - 1) \o SubSeq(seq, j + 1, Len(seq))

\* new is old with item put in front, after the oldest-uploaded item of a
\* full gallery was evicted
NewestFirstWithin(old, new, item) ==
    /\ Len(new) <= GALLERY_CAP
    /\ new # <<>> /\ new[1] = item
    /\ IF Len(old) < GALLERY_CAP
       THEN new = <<item>> \o old
       ELSE \E j \in 1..Len(old) :
              /\ \A i \in 1..Len(old) : old[j].uploadedAt <= old[i].uploadedAt
              /\ new = <<item>> \o RemoveAt(old, j)

\* C14: after a successful camera upload the gallery of the device holds at
\* most 50 items with the new capture first; the items it held before follow,
\* less the oldest-uploaded one when the gallery was full.
C14_CameraUploadNewestFirst ==
    [][ \A d \in UploadDeviceIds, n \in OriginalNames :
          \A r \in DOMAIN frontCameraRequests :
             (ServerUploadFrontCamera(d, r, n, "stored") /\ lastCode' = 200)
             => NewestFirstWithin(ArrayAt(deviceGalleries, d),
                                  ArrayAt(deviceGalleries', d),
                                  CameraImage(StoredFile(d, n), n, "front_camera", r)) ]_vars

----------------------------------------------------------------------------
(* Removal of devices with every per-device store in use *)

NextRemoval ==
    \/ \E d \in DeviceIds : Register(d, "", <<>>)
    \/ /\ Len(ArrayAt(deviceLocations, "D1")) < MaxHistory
       /\ LocationUpdate("D1", "", <<28>>, <<77>>)
    \/ /\ Len(ArrayAt(deviceNotifications, "D1")) < MaxHistory
       /\ NotificationUpdate("D1", "com.chat", "Chat", "Hi", "")
    \/ /\ Len(ArrayAt(galleryChanges, "D1")) < MaxHistory
       /\ GalleryChanges("D1", "added", "/sdcard/a.jpg", "", <<>>)
    \/ \E d \in DeviceIds, x \in RandomSuffixes : RequestFrontCamera(d, "P1", "r1", x)
    \/ \E x \in RandomSuffixes : RequestBackCamera("D1", "P1", "r1", x)
    \/ \E r \in DOMAIN frontCameraRequests, n \in OriginalNames :
          UploadFrontCamera("D1", r, n, "stored")
    \/ \E d \in DeviceIds : DeleteDevice(d)
    \/ Clear

SpecRemoval == Init /\ [][NextRemoval]_vars

\* the requests of both tables made for deviceId
RequestsFor(front, back, deviceId) ==
    {request \in Values(front) \cup Values(back) : request.deviceId = deviceId}

\* no store holds anything for deviceId
NothingKept(devices, galleries, locations, changes, notifications, front, back, deviceId) ==
    /\ FindDevice(devices, deviceId) = 0
    /\ ArrayAt(locations, deviceId) = <<>>
    /\ ArrayAt(notifications, deviceId) = <<>>
    /\ ArrayAt(galleries, deviceId) = <<>>
    /\ ArrayAt(changes, deviceId) = <<>>
    /\ RequestsFor(front, back, deviceId) = {}

----------------------------------------------------------------------------
(* Generic gallery upload and the per-device clear routes *)

\* the imageData literal of /api/upload-gallery
GalleryImage(file, originalName) ==
    [ filename |-> file,
      originalName |-> originalName,
      uploadedAt |-> formatSimpleTime(now),
      type |-> "photo",
      requestId |-> <<>>,
      url |-> <<>> ]

\* the screenshotData literal of /api/upload-screenshot
ScreenshotImage(file, originalName, timestamp) ==
    [ filename |-> file,
      originalName |-> originalName,
      uploadedAt |-> formatSimpleTime(now),
      type |-> "screenshot",
      requestId |-> <<>>,
      url |-> <<>>,
      timestamp |-> OrElse(timestamp, now),
      formattedTime |-> formatSimpleTime(OrElse(timestamp, now)[1]) ]

GalleryPush_capped(gallery, image) == LastN(Append(gallery, image), GALLERY_CAP)

\* deviceGalleries[deviceId].push(image): these two routes cut nothing off
GalleryPush(gallery, image) == Append(gallery, image)

\* upload.single, then the handler shared by /api/upload-gallery and
\* /api/upload-screenshot, which differ in the item they push.  The upload of
\* this program has a size limit only; a multer failure is answered by the
\* default error handler.
UploadToGallery(deviceId, file, image, multer) ==
    /\ IF multer \in {"LIMIT_FILE_SIZE", "fileFilter"}
       THEN /\ lastCode' = 500
            /\ UNCHANGED << deviceGalleries, uploadsDir >>
       ELSE
       /\ uploadsDir' = IF multer = "stored" THEN uploadsDir \cup {file} ELSE uploadsDir
       /\ IF deviceId = NoId \/ multer = "nofile"
          THEN /\ lastCode' = 400
               /\ UNCHANGED deviceGalleries
          ELSE IF deviceId \in InheritedKeys
          THEN /\ lastCode' = 500
               /\ UNCHANGED deviceGalleries
          ELSE /\ deviceGalleries' =
                    Put(deviceGalleries, deviceId,
                        GalleryPush(ArrayAt(deviceGalleries, deviceId), image))
               /\ lastCode' = 200
    /\ UNCHANGED << connectedDevices, deviceLocations, galleryChanges, deviceNotifications,
                    frontCameraRequests, backCameraRequests, now, writes >>

\* POST /api/upload-gallery
UploadGallery(deviceId, originalName, multer) ==
    LET file == StoredFile(deviceId, originalName) IN
    UploadToGallery(deviceId, file, GalleryImage(file, originalName), multer)

\* POST /api/upload-screenshot
UploadScreenshot(deviceId, timestamp, originalName, multer) ==
    LET file == StoredFile(deviceId, originalName) IN
    UploadToGallery(deviceId, file, ScreenshotImage(file, originalName, timestamp), multer)

\* the model takes an upload of deviceId while its gallery and ./uploads are
\* within the bounds
WithinGalleryBounds(deviceId, originalName) ==
    /\ Len(ArrayAt(deviceGalleries, deviceId)) < MaxGallery
    /\ Cardinality(uploadsDir \cup {StoredFile(deviceId, originalName)}) <= MaxFiles

\* DELETE /api/clear-location/:deviceId
ClearLocation(deviceId) ==
    /\ deviceLocations' = Delete(deviceLocations, deviceId)
    /\ lastCode' = 200
    /\ UNCHANGED << connectedDevices, deviceGalleries, galleryChanges, deviceNotifications,
                    frontCameraRequests, backCameraRequests, uploadsDir, now, writes >>

\* DELETE /api/clear-notifications/:deviceId
ClearNotifications(deviceId) ==
    /\ deviceNotifications' = Delete(deviceNotifications, deviceId)
    /\ lastCode' = 200
    /\ UNCHANGED << connectedDevices, deviceGalleries, deviceLocations, galleryChanges,
                    frontCameraRequests, backCameraRequests, uploadsDir, now, writes >>

\* DELETE /api/clear-gallery/:deviceId
ClearGallery(deviceId) ==
    /\ deviceGalleries' = Delete(deviceGalleries, deviceId)
    /\ lastCode' = 200
    /\ UNCHANGED << connectedDevices, deviceLocations, galleryChanges, deviceNotifications,
                    frontCameraRequests, backCameraRequests, uploadsDir, now, writes >>

----------------------------------------------------------------------------
(* The device list *)

ViewLastLocation_persisted(device) == device.lastLocation

\* deviceLocations[device.id] ? deviceLocations[device.id][length - 1] : null
ViewLastLocation(device) ==
    LET history == ArrayAt(deviceLocations, device.id) IN
    IF history = <<>> THEN <<>> ELSE <<history[Len(history)]>>

\* deviceNotifications[device.id] ? deviceNotifications[device.id][0] : null
ViewLastNotification(device) ==
    LET list == ArrayAt(deviceNotifications, device.id) IN
    IF list = <<>> THEN <<>> ELSE <<list[1]>>

\* an element of enhancedDevices: the device record, with the counters and
\* the last fix / notification computed from the tables put over its fields
DeviceView(device) ==
    [ id |-> device.id,
      deviceName |-> device.deviceName,
      batteryLevel |-> device.batteryLevel,
      status |-> device.status,
      lastConnected |-> device.lastConnected,
      connectedAt |-> device.connectedAt,
      locationCount |-> Len(ArrayAt(deviceLocations, device.id)),
      galleryCount |-> Len(ArrayAt(deviceGalleries, device.id)),
      notificationCount |-> Len(ArrayAt(deviceNotifications, device.id)),
      lastLocation |-> ViewLastLocation(device),
      lastNotification |-> ViewLastNotification(device) ]

\* the element of enhancedDevices of the camera program
CameraView(device) ==
    LET front == Cardinality(PendingRequests(frontCameraRequests, device.id))
        back == Cardinality(PendingRequests(backCameraRequests, device.id))
    IN [ id |-> device.id,
         pendingFrontCameraRequests |-> front,
         pendingBackCameraRequests |-> back,
         totalPendingRequests |-> front + back,
         galleryCount |-> Len(ArrayAt(deviceGalleries, device.id)) ]

\* GET /api/devices
GetDevices ==
    /\ lastCode' = 200
    /\ UNCHANGED << stores, uploadsDir, now, writes >>

Latitudes == {28, 29}

NextView ==
    \/ Register("D1", "", <<>>)
    \/ \E latitude \in Latitudes :
          /\ Len(ArrayAt(deviceLocations, "D1")) < MaxHistory + 1
          /\ LocationUpdate("D1", "", <<latitude>>, <<77>>)
    \/ /\ Len(ArrayAt(deviceNotifications, "D1")) < MaxHistory
       /\ NotificationUpdate("D1", "com.chat", "Chat", "Hi", "")
    \/ \E n \in OriginalNames :
          WithinGalleryBounds("D1", n) /\ UploadGallery("D1", n, "stored")
    \/ \E x \in RandomSuffixes : RequestFrontCamera("D1", "P1", "r1", x)
    \/ \E x \in RandomSuffixes : RequestBackCamera("D1", "P1", "r1", x)
    \/ \E r \in DOMAIN frontCameraRequests, n \in OriginalNames :
          UploadFrontCamera("D1", r, n, "stored")
    \/ ClearLocation("D1")
    \/ ClearNotifications("D1")
    \/ ClearGallery("D1")
    \/ GetDevices

SpecView == Init /\ [][NextView]_vars

----------------------------------------------------------------------------
(* Telemetry and the registry, checked under SpecRegistry *)

\* the registry after the step holds deviceId; when it held it before, the
\* entry is where it was and the other entries are as they were
Upserted(deviceId) ==
    LET i == FindDevice(connectedDevices, deviceId) IN
    /\ FindDevice(connectedDevices', deviceId) # 0
    /\ i # 0 => /\ Len(connectedDevices') = Len(connectedDevices)
                /\ connectedDevices'[i].id = deviceId
                /\ \A j \in 1..Len(connectedDevices) :
                      j # i => connectedDevices'[j] = connectedDevices[j]

\* C18: an accepted location update or notification update for a deviceId that
\* is not in the registry creates a Device entry with that id; for a deviceId
\* that is present it changes the existing entry in place.
C18_TelemetryUpserts ==
    [][ ( \/ LocationUpdate("D1", "", <<28>>, <<77>>)
          \/ NotificationUpdate("D1", "com.chat", "Chat", "Hi", "") )
        => Upserted("D1") ]_vars

----------------------------------------------------------------------------
(* Request ids, checked under SpecCapture *)

\* C19: no two capture requests of the ledger, of the same or of different
\* facings, share a requestId.
C19_RequestIdUnique ==
    \A p, q \in LedgerRequests : p.requestId = q.requestId => p = q

----------------------------------------------------------------------------
(* Calls that lack a required field *)

\* a call with a body that lacks a required field: the deviceId, the
\* latitude or the longitude of a location update, both title and text of a
\* notification update, the requestId of a camera upload
LacksField ==
    \/ Register(NoId, "Phone", <<80>>)
    \/ BatteryUpdate(NoId, "", <<20>>)
    \/ LocationUpdate(NoId, "", <<28>>, <<77>>)
    \/ LocationUpdate("D1", "", <<>>, <<77>>)
    \/ LocationUpdate("D1", "", <<28>>, <<>>)
    \/ NotificationUpdate(NoId, "com.chat", "Chat", "Hi", "")
    \/ NotificationUpdate("D1", "com.chat", "Chat", "", "")
    \/ \E x \in RandomSuffixes : RequestFrontCamera(NoId, "P1", "r1", x)
    \/ \E x \in RandomSuffixes : RequestBackCamera(NoId, "P1", "r1", x)
    \/ \E n \in OriginalNames : UploadFrontCamera(NoId, "r1", n, "stored")
    \/ \E n \in OriginalNames : UploadFrontCamera("D1", NoId, n, "stored")
    \/ \E n \in OriginalNames : UploadBackCamera(NoId, "r1", n, "stored")
    \/ \E n \in OriginalNames : UploadBackCamera("D1", NoId, n, "stored")
    \/ \E n \in OriginalNames : UploadGallery(NoId, n, "stored")

NextValidation ==
    \/ Register("D1", "", <<>>)
    \/ /\ Len(ArrayAt(deviceLocations, "D1")) < MaxHistory
       /\ LocationUpdate("D1", "", <<28>>, <<77>>)
    \/ /\ Len(ArrayAt(deviceNotifications, "D1")) < MaxHistory
       /\ NotificationUpdate("D1", "com.chat", "Chat", "Hi", "")
    \/ \E x \in RandomSuffixes : RequestFrontCamera("D1", "P1", "r1", x)
    \/ \E r \in DOMAIN frontCameraRequests, n \in OriginalNames :
          UploadFrontCamera("D1", r, n, "stored")
    \/ LacksField

SpecValidation == Init /\ [][NextValidation]_vars

\* C20: a call that lacks a required field is answered 400 and leaves every
\* table as it was.
C20_LackingFieldRejected ==
    [][ LacksField => (lastCode' = 400 /\ UNCHANGED stores) ]_vars

\* a lacking call was answered while the registry, both histories, the front
\* request table and the gallery of D1 hold entries
C20_Witness ==
    /\ lastCode = 400
    /\ Registered("D1")
    /\ ArrayAt(deviceLocations, "D1") # <<>>
    /\ ArrayAt(deviceNotifications, "D1") # <<>>
    /\ ArrayAt(deviceGalleries, "D1") # <<>>
    /\ HasKey(frontCameraRequests, "r1")
    /\ frontCameraRequests["r1"].status = "captured"

----------------------------------------------------------------------------
(* Status checks, checked under SpecPolling *)

\* the ids a parent polls: caller-chosen and generated ids of requests made,
\* an id never used, and names every object inherits
PollIds ==
    {"r1", "nonexistent"} \cup InheritedKeys
        \cup DOMAIN frontCameraRequests \cup DOMAIN backCameraRequests

NextPolling ==
    \/ Register("D1", "", <<>>)
    \/ \E r \in CallerRequestIds \cup {NoId}, x \in RandomSuffixes :
          RequestFrontCamera("D1", "P1", r, x)
    \/ \E r \in CallerRequestIds \cup {NoId}, x \in RandomSuffixes :
          RequestBackCamera("D1", "P1", r, x)
    \/ \E r \in DOMAIN frontCameraRequests, n \in OriginalNames :
          UploadFrontCamera("D1", r, n, "stored")
    \/ \E r \in DOMAIN backCameraRequests, n \in OriginalNames :
          UploadBackCamera("D1", r, n, "stored")
    \/ \E r \in PollIds : CheckCameraRequest(r)
    \/ \E r \in PollIds : CheckBackCameraRequest(r)

SpecPolling == Init /\ [][NextPolling]_vars

\* the answer of a status check of one facing: 200 with the stored status for
\* a request of the table, 404 for every other id, and no table changes
StatusAnswer(table, requestId) ==
    /\ UNCHANGED << stores, uploadsDir >>
    /\ IF HasKey(table, requestId)
       THEN lastCode' = 200 /\ StatusOf(table, requestId) = table[requestId].status
       ELSE lastCode' = 404 /\ StatusOf(table, requestId) = "not found"

\* C21: a status check changes no table; it answers 200 with the stored status
\* for every request of its facing, generated or caller-named, and 404 for
\* every id that is not a request of the table.
C21_StatusCheckReadOnly ==
    [][ \A r \in PollIds :
          /\ CheckCameraRequest(r) => StatusAnswer(frontCameraRequests, r)
          /\ CheckBackCameraRequest(r) => StatusAnswer(backCameraRequests, r) ]_vars

----------------------------------------------------------------------------
(* Fields of a capture request, checked under SpecCapture *)

\* C22: in every reachable state a capture request carries an image only when
\* its status is captured and a failure message only when its status is
\* failed; a pending request has no image, no capture time and no message.
C22_FieldsFollowStatus ==
    \A request \in LedgerRequests :
        /\ request.imageUrl # <<>> => request.status = "captured"
        /\ request.message # <<>> => request.status = "failed"
        /\ request.status = "pending"
              => /\ request.imageUrl = <<>>
                 /\ request.capturedAt = <<>>
                 /\ request.message = <<>>

----------------------------------------------------------------------------
(* Pending requests over time, checked under SpecPersistence *)

(* Requests are made for D1 and D2 while time passes, parents poll, devices
   report telemetry, D1 uploads, and devices are deleted or all data is
   cleared. *)
NextPersistence ==
    \/ \E d \in DeviceIds : Register(d, "", <<>>)
    \/ \E d \in DeviceIds, x \in RandomSuffixes : RequestFrontCamera(d, "P1", "r1", x)
    \/ \E x \in RandomSuffixes : RequestFrontCamera("D1", "P1", NoId, x)
    \/ \E x \in RandomSuffixes : RequestBackCamera("D1", "P1", "r1", x)
    \/ \E n \in OriginalNames :
          /\ HasKey(frontCameraRequests, "r1")
          /\ UploadFrontCamera("D1", "r1", n, "stored")
    \/ CheckCameraRequest("r1")
    \/ PendingCameraRequests("D1")
    \/ /\ Len(ArrayAt(deviceLocations, "D1")) < MaxHistory
       /\ LocationUpdate("D1", "", <<28>>, <<77>>)
    \/ \E d \in DeviceIds : DeleteDevice(d)
    \/ Clear
    \/ Tick

SpecPersistence == Init /\ [][NextPersistence]_vars

\* the step is an upload to the route of `table` that names requestId
UploadNaming(table, requestId) ==
    \E d \in UploadDeviceIds \cup {NoId}, n \in OriginalNames, m \in MulterOutcomes :
        IF table = frontCameraRequests
        THEN UploadFrontCamera(d, requestId, n, m)
        ELSE UploadBackCamera(d, requestId, n, m)

\* every pending request of `old` is in `new` as it was, unless the step is an
\* upload naming it, the removal of its device or a clear
PendingKept(old, new) ==
    \A r \in DOMAIN old :
        ( /\ old[r].status = "pending"
          /\ ~UploadNaming(old, r)
          /\ ~DeleteDevice(old[r].deviceId)
          /\ ~Clear )
        => r \in DOMAIN new /\ new[r] = old[r]

\* C23: a pending capture request stays in its table, unchanged and pending,
\* through every step that is not an upload naming its requestId, the removal
\* of its device or a clear.
C23_PendingPersists ==
    [][ /\ PendingKept(frontCameraRequests, frontCameraRequests')
        /\ PendingKept(backCameraRequests, backCameraRequests') ]_vars

----------------------------------------------------------------------------
(* Camera uploads that overlap other calls *)

(* multer streams the file part to ./uploads and calls the route handler only
   when the stream has finished; while it writes, the event loop serves other
   calls.  The route handler itself is synchronous and runs to completion.
   An upload is therefore two steps: BeginUpload, then FinishUpload or
   FailUpload. *)

MaxWrites == 2

Routes == {"front", "back"}

\* the causes that end a write with an error
WriteErrors == {"LIMIT_FILE_SIZE", "EIO"}

\* an upload whose file is being written
Write(route, deviceId, requestId, originalName, file) ==
    [ route |-> route, deviceId |-> deviceId, requestId |-> requestId,
      originalName |-> originalName, file |-> file ]

BeginUpload_eager(route, deviceId, requestId, originalName) ==
    LET file == StoredFile(deviceId, originalName) IN
    /\ file \notin uploadsDir
    /\ Cardinality(writes) < MaxWrites
    /\ uploadsDir' = uploadsDir \cup {file}
    /\ Cardinality(uploadsDir') <= MaxFiles
    /\ writes' = writes \cup {Write(route, deviceId, requestId, originalName, file)}
    /\ IF route = "front"
       THEN /\ UploadHandler(frontCameraRequests, "front_camera", deviceId,
                             requestId, originalName, <<file>>)
            /\ UNCHANGED backCameraRequests
       ELSE /\ UploadHandler(backCameraRequests, "back_camera", deviceId,
                             requestId, originalName, <<file>>)
            /\ UNCHANGED frontCameraRequests
    /\ UNCHANGED << connectedDevices, deviceLocations, galleryChanges,
                    deviceNotifications, now >>

\* upload.single('frontCameraImage'): storage.filename names the file from the body's
\* deviceId and Date.now(), and the file is created in ./uploads.  Two uploads
\* of one device get different names (their timestamps differ).
BeginUpload(route, deviceId, requestId, originalName) ==
    LET file == StoredFile(deviceId, originalName) IN
    /\ file \notin uploadsDir
    /\ Cardinality(writes) < MaxWrites
    /\ uploadsDir' = uploadsDir \cup {file}
    /\ Cardinality(uploadsDir') <= MaxFiles
    /\ writes' = writes \cup {Write(route, deviceId, requestId, originalName, file)}
    /\ UNCHANGED << stores, now, lastCode >>

\* the stream has finished: multer calls next() and the route handler runs
FinishUpload(w) ==
    /\ w \in writes
    /\ writes' = writes \ {w}
    /\ IF w.route = "front"
       THEN /\ UploadHandler(frontCameraRequests, "front_camera", w.deviceId,
                             w.requestId, w.originalName, <<w.file>>)
            /\ UNCHANGED backCameraRequests
       ELSE /\ UploadHandler(backCameraRequests, "back_camera", w.deviceId,
                             w.requestId, w.originalName, <<w.file>>)
            /\ UNCHANGED frontCameraRequests
    /\ UNCHANGED << connectedDevices, deviceLocations, galleryChanges,
                    deviceNotifications, uploadsDir, now >>

\* the write fails: multer removes the partial file and passes the error to
\* the error-handling middleware; the route handler does not run
FailUpload(w, error) ==
    /\ w \in writes
    /\ writes' = writes \ {w}
    /\ uploadsDir' = uploadsDir \ {w.file}
    /\ lastCode' = IF error = "LIMIT_FILE_SIZE" THEN 400 ELSE 500
    /\ UNCHANGED << stores, now >>

(* D1 uploads for the front request r1 and the back request r1, up to
   MaxWrites uploads at a time, while the parent asks, polls and lists. *)
NextOverlap ==
    \/ Register("D1", "", <<>>)
    \/ \E x \in RandomSuffixes : RequestFrontCamera("D1", "P1", "r1", x)
    \/ \E x \in RandomSuffixes : RequestBackCamera("D1", "P1", "r1", x)
    \/ \E route \in Routes, n \in OriginalNames : BeginUpload(route, "D1", "r1", n)
    \/ \E w \in writes : FinishUpload(w)
    \/ \E w \in writes, e \in WriteErrors : FailUpload(w, e)
    \/ CheckCameraRequest("r1")
    \/ CheckBackCameraRequest("r1")
    \/ PendingCameraRequests("D1")
    \/ PendingBackCameraRequests("D1")
    \/ GetGallery("D1")
    \/ Tick

SpecOverlap == Init /\ [][NextOverlap]_vars

\* every file a request of `new` received in this step is the file of an upload
\* whose write ended in this step
ReceivedFromEndedWrite(old, new, route) ==
    \A r \in DOMAIN new :
        ( /\ new[r].filename # <<>>
          /\ r \in DOMAIN old => new[r].filename # old[r].filename )
        => \E w \in writes \ writes' :
              /\ w.route = route
              /\ w.requestId = r
              /\ new[r].filename = <<w.file>>
              /\ new[r].status = "captured"

\* C24: a camera upload changes the request tables and the gallery only when
\* its file write has ended: the step that starts the write changes no table,
\* no request holds the file of an upload that is still being written, and a
\* request receives its file in the step in which that file's write ends.
C24_TransitionAfterWrite ==
    [][ /\ \A route \in Routes, n \in OriginalNames :
              BeginUpload(route, "D1", "r1", n) => UNCHANGED stores
        /\ \A w \in writes' : \A request \in LedgerRequests' :
              request.filename # <<w.file>>
        /\ ReceivedFromEndedWrite(frontCameraRequests, frontCameraRequests', "front")
        /\ ReceivedFromEndedWrite(backCameraRequests, backCameraRequests', "back") ]_vars

\* the file of an upload for the front request r1 is being written and r1 is
\* still pending, after a status check, while the back request r1 has been
\* captured by an upload whose write ended
C24_Witness ==
    /\ \E w \in writes : w.route = "front" /\ w.requestId = "r1"
    /\ HasKey(frontCameraRequests, "r1")
    /\ frontCameraRequests["r1"].status = "pending"
    /\ HasKey(backCameraRequests, "r1")
    /\ backCameraRequests["r1"].status = "captured"
    /\ backCameraRequests["r1"].filename # <<>>
    /\ lastCode = 200

\* the gallery of deviceId holds the picture of `request`, of the kind of the route
InGallery(galleries, request, type) ==
    \E d \in DOMAIN galleries : \E i \in 1..Len(galleries[d]) :
        /\ galleries[d][i].requestId = <<request.requestId>>
        /\ <<galleries[d][i].filename>> = request.filename
        /\ galleries[d][i].type = type

\* every request of `new` that became captured in this step, or was captured
\* again with another file, has its image, capture time and file recorded and
\* its picture in a gallery after the same step
FulfilledAtOnce(old, new, type) ==
    \A r \in DOMAIN new :
        ( /\ new[r].status = "captured"
          /\ r \in DOMAIN old =>
                \/ old[r].status # "captured"
                \/ old[r].filename # new[r].filename )
        => /\ new[r].imageUrl # <<>>
           /\ new[r].imageUrl = new[r].filename
           /\ new[r].capturedAt # <<>>
           /\ InGallery(deviceGalleries', new[r], type)
           /\ r \in DOMAIN old /\ ~InGallery(deviceGalleries, new[r], type)

\* C25: under every interleaving of uploads with other calls, the step that
\* makes a request captured also records its image and adds the picture to
\* the gallery, and in every state each captured request has its picture in a
\* gallery.
C25_FulfilmentAtomic ==
    [][ /\ FulfilledAtOnce(frontCameraRequests, frontCameraRequests', "front_camera")
        /\ FulfilledAtOnce(backCameraRequests, backCameraRequests', "back_camera")
        /\ \A request \in LedgerRequests' :
              request.status = "captured" =>
                 InGallery(deviceGalleries',
                           request,
                           IF request.cameraType = "front" THEN "front_camera"
                                                           ELSE "back_camera") ]_vars

\* two uploads overlapped: the front request r1 is captured with its picture
\* first in the gallery of D1 while the file of the upload for the back
\* request r1 is still being written and that request is pending
C25_Witness ==
    /\ HasKey(frontCameraRequests, "r1")
    /\ frontCameraRequests["r1"].status = "captured"
    /\ ArrayAt(deviceGalleries, "D1") # <<>>
    /\ ArrayAt(deviceGalleries, "D1")[1].requestId = <<"r1">>
    /\ ArrayAt(deviceGalleries, "D1")[1].type = "front_camera"
    /\ \E w \in writes : w.route = "back" /\ w.requestId = "r1"
    /\ HasKey(backCameraRequests, "r1")
    /\ backCameraRequests["r1"].status = "pending"

----------------------------------------------------------------------------
(* Removal of an unknown device, checked under SpecRemoval *)

\* C26: delete-device for an id that is not in the registry is answered 404
\* and leaves every table as it was.
C26_DeleteUnknownChangesNothing ==
    [][ \A d \in DeviceIds :
          (~Registered(d) /\ DeleteDevice(d)) =>
             (lastCode' = 404 /\ UNCHANGED stores) ]_vars

----------------------------------------------------------------------------
(* Coordinates of a location update, checked under SpecCoordinates *)

\* latitudes and longitudes a device reports: south and west of the equator
\* and the prime meridian, on them, and north and east of them
Coordinates == {-33, 0, 28}

\* the latitude or longitude member of a body: absent or a number
OptionalCoordinates == {<<>>} \cup {<<c>> : c \in Coordinates}

NextCoordinates ==
    \/ Register("D1", "", <<>>)
    \/ \E latitude, longitude \in OptionalCoordinates :
          /\ Len(ArrayAt(deviceLocations, "D1")) < MaxHistory
          /\ LocationUpdate("D1", "", latitude, longitude)
    \/ ClearLocation("D1")
    \/ Tick

SpecCoordinates == Init /\ [][NextCoordinates]_vars

\* C27: a location update with a deviceId and numeric latitude and longitude,
\* zero and negative values included, is answered 200 and appended to the
\* history of the device.
C27_EveryCoordinateAccepted ==
    [][ \A latitude, longitude \in Coordinates :
          LocationUpdate("D1", "", <<latitude>>, <<longitude>>)
          => /\ lastCode' = 200
             /\ ArrayAt(deviceLocations', "D1") =
                  Append(ArrayAt(deviceLocations, "D1"),
                         LocationData(<<latitude>>, <<longitude>>)) ]_vars

----------------------------------------------------------------------------
(* Battery level at registration, checked under SpecRegisterBattery *)

\* battery percentages a device reports: empty, nearly empty, half, full
BatteryLevels == {0, 1, 50, 100}

\* the batteryLevel member of a body: absent or a percentage
OptionalBatteryLevels == {<<>>} \cup {<<b>> : b \in BatteryLevels}

NextRegisterBattery ==
    \/ \E d \in DeviceIds, b \in OptionalBatteryLevels : Register(d, "", b)
    \/ \E b \in OptionalBatteryLevels : Register("D1", "Phone", b)
    \/ \E d \in DeviceIds : DeleteDevice(d)
    \/ Tick

SpecRegisterBattery == Init /\ [][NextRegisterBattery]_vars

\* C28: register stores the supplied batteryLevel for every percentage from 0
\* to 100; a call with only a deviceId is answered 200 and stores the
\* placeholder name and the default battery level.
C28_RegisterStoresBattery ==
    [][ /\ \A b \in BatteryLevels :
              Register("D1", "", <<b>>)
              => /\ lastCode' = 200
                 /\ DeviceOf(connectedDevices', "D1").batteryLevel = <<b>>
        /\ Register("D1", "", <<>>)
              => /\ lastCode' = 200
                 /\ Registered("D1")'
                 /\ DeviceOf(connectedDevices', "D1").deviceName = "Child Device"
                 /\ DeviceOf(connectedDevices', "D1").batteryLevel = <<DEFAULT_BATTERY>>
                 /\ DeviceOf(connectedDevices', "D1").status = "online" ]_vars

----------------------------------------------------------------------------
(* Battery updates of a registered device, checked under SpecRegistry *)

\* the record of deviceId after the step is the record before it, at the same
\* place in a registry of the same size, with status online; its name is as
\* before (the call supplies none) and its battery level is the supplied one,
\* or as before when the call supplies none
BatteryMerged(deviceId, batteryLevel) ==
    LET i == FindDevice(connectedDevices, deviceId)
        old == connectedDevices[i]
        new == connectedDevices'[i]
    IN /\ Len(connectedDevices') = Len(connectedDevices)
       /\ \A j \in 1..Len(connectedDevices) :
             j # i => connectedDevices'[j] = connectedDevices[j]
       /\ new.id = deviceId
       /\ new.connectedAt = old.connectedAt
       /\ new.lastLocation = old.lastLocation
       /\ new.lastNotification = old.lastNotification
       /\ new.status = "online"
       /\ new.deviceName = old.deviceName
       /\ new.batteryLevel = IF batteryLevel = <<>> THEN old.batteryLevel
                                                    ELSE batteryLevel

\* C29: battery-update on a registered device changes its record in place:
\* registry size, id, registration time and the location and notification
\* snapshots stay, status is online, and a name or battery level the call
\* does not supply keeps its previous value.
C29_BatteryUpdateInPlace ==
    [][ \A b \in BatteryBodies("D1") :
          (Registered("D1") /\ BatteryUpdate("D1", "", b))
          => (lastCode' = 200 /\ BatteryMerged("D1", b)) ]_vars

----------------------------------------------------------------------------
(* Frame of a gallery change, checked under SpecChangeLog *)

\* C30: recording a gallery change for a device changes the change log of that
\* device and nothing else: the registry, the galleries and the set of ids
\* that have one, the location and notification histories, the capture
\* requests and the change logs of other devices are as before.
C30_GalleryChangeTouchesOnlyLog ==
    [][ \A d \in DeviceIds :
          (\E action \in {"added", "deleted"}, imageType \in {"", "video"},
              t \in 1..MaxEvents :
                GalleryChanges(d, action, "/sdcard/a.jpg", imageType, <<t>>))
          => /\ UNCHANGED << connectedDevices, deviceLocations, deviceNotifications,
                             frontCameraRequests, backCameraRequests >>
             /\ DOMAIN deviceGalleries' = DOMAIN deviceGalleries
             /\ deviceGalleries' = deviceGalleries
             /\ \A e \in DeviceIds \ {d} :
                   ArrayAt(galleryChanges', e) = ArrayAt(galleryChanges, e) ]_vars

----------------------------------------------------------------------------
(* Gallery listing, checked under SpecGalleryList *)

(* D1 uploads camera pictures for the request r1 and for a request that was
   never made; the latter are answered 404 and leave their file in ./uploads
   without a gallery item.  The galleries of D1 and of D2, which never
   uploads, are read at any time. *)
NextGalleryList ==
    \/ Register("D1", "", <<>>)
    \/ \E x \in RandomSuffixes : RequestFrontCamera("D1", "P1", "r1", x)
    \/ \E r \in {"r1", "nonexistent"} : UploadFrontCamera("D1", r, "img.jpg", "stored")
    \/ UploadBackCamera("D1", "nonexistent", "back.jpg", "stored")
    \/ \E d \in DeviceIds : GetGallery(d)
    \/ Tick

SpecGalleryList == Init /\ [][NextGalleryList]_vars

\* the items of `images` are one per file of `files`, each built from its file
ReconstructedFrom(images, files) ==
    /\ Len(images) = Cardinality(files)
    /\ {images[i].filename : i \in 1..Len(images)} = files
    /\ \A i \in 1..Len(images) :
          /\ images[i].url = <<images[i].filename>>
          /\ images[i].requestId = <<>>

----------------------------------------------------------------------------
(* Generic gallery and screenshot uploads, checked under SpecGalleryUploads *)

\* the entry of the screenshots view built from a gallery item
ScreenshotEntry(img) ==
    [ filename |-> img.filename,
      originalName |-> img.originalName,
      uploadedAt |-> img.uploadedAt,
      timestamp |-> img.timestamp,
      formattedTime |-> img.formattedTime ]

\* gallery.filter(img => img.type === 'screenshot').map(img => ({...}))
RECURSIVE FilterMapScreenshots(_)
FilterMapScreenshots(gallery) ==
    IF gallery = <<>> THEN <<>>
    ELSE IF Head(gallery).type = "screenshot"
         THEN <<ScreenshotEntry(Head(gallery))>> \o FilterMapScreenshots(Tail(gallery))
         ELSE FilterMapScreenshots(Tail(gallery))

\* the screenshots GET /api/screenshots/:deviceId returns
Screenshots(deviceId) ==
    IF ArrayAt(deviceGalleries, deviceId) = <<>> THEN <<>>
    ELSE FilterMapScreenshots(deviceGalleries[deviceId])

\* GET /api/screenshots/:deviceId
GetScreenshots(deviceId) ==
    /\ lastCode' = 200
    /\ UNCHANGED << stores, uploadsDir, now, writes >>

MaxUploads == 60

\* the number of uploads D1 has made: every one is in its gallery
UploadsSent(deviceId) == Len(ArrayAt(deviceGalleries, deviceId))

(* D1 uploads MaxUploads files in turn, the k-th under the original name k:
   a gallery picture when k is odd and a screenshot when k is even.  D2
   uploads one file of either kind. *)
NextGalleryUploads ==
    \/ /\ UploadsSent("D1") < MaxUploads
       /\ UploadsSent("D1") % 2 = 0
       /\ UploadGallery("D1", ToString(UploadsSent("D1") + 1), "stored")
    \/ /\ UploadsSent("D1") < MaxUploads
       /\ UploadsSent("D1") % 2 = 1
       /\ UploadScreenshot("D1", <<UploadsSent("D1") + 1>>,
                           ToString(UploadsSent("D1") + 1), "stored")
    \/ UploadsSent("D2") < 1 /\ UploadGallery("D2", "img.jpg", "stored")
    \/ UploadsSent("D2") < 1 /\ UploadScreenshot("D2", <<>>, "shot.png", "stored")
    \/ \E d \in DeviceIds : GetScreenshots(d)

SpecGalleryUploads == Init /\ [][NextGalleryUploads]_vars

\* the gallery holds the uploads 1..n in upload order and the screenshots
\* view holds the even ones in the same order
AllUploadsKept(galleries, screenshots, deviceId) ==
    LET gallery == ArrayAt(galleries, deviceId) IN
    /\ \A k \in 1..Len(gallery) :
          /\ gallery[k].originalName = ToString(k)
          /\ gallery[k].type = IF k % 2 = 0 THEN "screenshot" ELSE "photo"
    /\ Len(screenshots) = Len(gallery) \div 2
    /\ \A j \in 1..Len(screenshots) :
          /\ screenshots[j].originalName = ToString(2 * j)
          /\ screenshots[j].filename = gallery[2 * j].filename
          /\ screenshots[j].timestamp = <<2 * j>>

\* C32: a gallery or screenshot upload puts its item at the end of the
\* gallery of the device, which grows by one and loses nothing, however long
\* it is; the screenshots view lists the screenshots of the gallery in
\* gallery order.
C32_GenericUploadsAppend ==
    [][ \A k \in 1..MaxUploads :
          ( \/ UploadGallery("D1", ToString(k), "stored")
            \/ UploadScreenshot("D1", <<k>>, ToString(k), "stored") )
          => /\ lastCode' = 200
             /\ Len(deviceGalleries'["D1"]) = Len(ArrayAt(deviceGalleries, "D1")) + 1
             /\ SubSeq(deviceGalleries'["D1"], 1, Len(ArrayAt(deviceGalleries, "D1")))
                   = ArrayAt(deviceGalleries, "D1")
             /\ deviceGalleries'["D1"][Len(deviceGalleries'["D1"])].originalName
                   = ToString(k)
             /\ AllUploadsKept(deviceGalleries', Screenshots("D1")', "D1") ]_vars

\* D1 has made MaxUploads uploads, more than any cap of the program: the
\* first is still first in its gallery and the view lists half of them
C32_Witness ==
    /\ UploadsSent("D1") = MaxUploads
    /\ deviceGalleries["D1"][1].originalName = "1"
    /\ Len(Screenshots("D1")) = MaxUploads \div 2
    /\ Screenshots("D1")[1].originalName = "2"
    /\ lastCode = 200

----------------------------------------------------------------------------
(* Notification statistics, checked under SpecNotificationStats.  A value of
   the appCounts object is a number or, once a count has been added to
   something that is not a number, a string: [type |-> "number", n |-> k] is
   the number k, [type |-> "string", n |-> k] is the text of the inherited
   function followed by k digits "1". *)

MaxStatsHistory == 3   \* notifications D1 sends before its history is cleared

AppNames == {"Chat", "Mail", "constructor"}

\* new Date(t).toDateString(): the calendar day; midnight falls between the
\* instants 1 and 2 of the clock
toDateString(timestamp) == timestamp \div 2

\* position of appKey among the own entries of appCounts, 0 if it has none
OwnEntry(appCounts, appKey) ==
    IF \E i \in 1..Len(appCounts) : appCounts[i].app = appKey
    THEN CHOOSE i \in 1..Len(appCounts) : appCounts[i].app = appKey
    ELSE 0

\* (appCounts[appKey] || 0) + 1
Incremented(appCounts, appKey) ==
    LET i == OwnEntry(appCounts, appKey) IN
    IF i # 0
    THEN [type |-> appCounts[i].count.type, n |-> appCounts[i].count.n + 1]
    ELSE IF appKey \in InheritedKeys
         THEN [type |-> "string", n |-> 1]
         ELSE [type |-> "number", n |-> 1]

\* appCounts[appKey] = ...: an own entry keeps its place, a new one goes last
Assigned(appCounts, appKey, value) ==
    LET i == OwnEntry(appCounts, appKey) IN
    IF i # 0 THEN [appCounts EXCEPT ![i].count = value]
    ELSE Append(appCounts, [app |-> appKey, count |-> value])

\* the forEach loop over the first n notifications: the appCounts it builds
RECURSIVE CountByApp(_, _)
CountByApp(notifications, n) ==
    IF n = 0 THEN <<>>
    ELSE LET appCounts == CountByApp(notifications, n - 1)
             appKey == notifications[n].appName
         IN Assigned(appCounts, appKey, Incremented(appCounts, appKey))

\* the forEach loop: the notifications whose day is today's
TodayCount(notifications) ==
    Cardinality({ i \in 1..Len(notifications) :
                    toDateString(notifications[i].timestamp) = toDateString(now) })

\* count > maxCount: a string that is not numeric compares false
GreaterThan(count, maxCount) == count.type = "number" /\ count.n > maxCount

\* the for...of loop over the first n entries: [maxCount, mostActiveApp]
RECURSIVE MostActive(_, _)
MostActive(appCounts, n) ==
    IF n = 0 THEN [maxCount |-> 0, mostActiveApp |-> "None"]
    ELSE LET before == MostActive(appCounts, n - 1) IN
         IF GreaterThan(appCounts[n].count, before.maxCount)
         THEN [maxCount |-> appCounts[n].count.n, mostActiveApp |-> appCounts[n].app]
         ELSE before

\* the stats member of the response of GET /api/notification-stats/:deviceId
Stats(deviceId) ==
    LET notifications == ArrayAt(deviceNotifications, deviceId) IN
    IF notifications = <<>>
    THEN [ total |-> 0, byApp |-> <<>>, todayCount |-> 0, mostActiveApp |-> "None" ]
    ELSE LET appCounts == CountByApp(notifications, Len(notifications)) IN
         [ total |-> Len(notifications),
           byApp |-> appCounts,
           todayCount |-> TodayCount(notifications),
           mostActiveApp |-> MostActive(appCounts, Len(appCounts)).mostActiveApp ]

\* GET /api/notification-stats/:deviceId
GetNotificationStats(deviceId) ==
    /\ lastCode' = 200
    /\ UNCHANGED << stores, uploadsDir, now, writes >>

NextNotificationStats ==
    \/ \E appName \in AppNames :
          /\ Len(ArrayAt(deviceNotifications, "D1")) < MaxStatsHistory
          /\ NotificationUpdate("D1", "com.chat", appName, "Hi", "")
    \/ /\ ArrayAt(deviceNotifications, "D2") = <<>>
       /\ NotificationUpdate("D2", "com.chat", "Chat", "Hi", "")
    \/ \E d \in DeviceIds : ClearNotifications(d)
    \/ \E d \in DeviceIds : GetNotificationStats(d)
    \/ Tick

SpecNotificationStats == Init /\ [][NextNotificationStats]_vars

RECURSIVE SumOfCounts(_, _)
SumOfCounts(appCounts, n) ==
    IF n = 0 THEN 0 ELSE SumOfCounts(appCounts, n - 1) + appCounts[n].count.n

\* C33: the statistics of a device are those of its stored notifications:
\* total is their number, the byApp counts are numbers that sum to total,
\* todayCount is at most total, and mostActiveApp is an app whose count is the
\* greatest ("None", with no counts, exactly when nothing is stored).
C33_StatsReflectHistory ==
    \A d \in DeviceIds :
        LET list == ArrayAt(deviceNotifications, d)
            stats == Stats(d)
            byApp == stats.byApp
        IN /\ stats.total = Len(list)
           /\ \A i \in 1..Len(byApp) : byApp[i].count.type = "number"
           /\ SumOfCounts(byApp, Len(byApp)) = stats.total
           /\ stats.todayCount <= stats.total
           /\ IF list = <<>>
              THEN stats.mostActiveApp = "None" /\ byApp = <<>>
              ELSE \E i \in 1..Len(byApp) :
                      /\ byApp[i].app = stats.mostActiveApp
                      /\ \A j \in 1..Len(byApp) : byApp[j].count.n <= byApp[i].count.n

----------------------------------------------------------------------------
(* The location history query, checked under SpecLocationQuery.  D1 numbers
   its fixes by latitude as above; the limit arrives as the text of a query
   parameter. *)

MaxQueryFixes == 4     \* location updates D1 sends
MaxLimit == 6          \* largest limit a query names

\* the limit parameter of the query string; <<>> when the query has none
QueryLimits == {<<>>, <<"0">>, <<"1">>, <<"2">>, <<"6">>}

DEFAULT_LIMIT == 50

\* parseInt on a string of decimal digits
parseInt(text) == CHOOSE k \in 0..MaxLimit : ToString(k) = text

\* const { limit = 50 } = req.query; parseInt(limit)
ParsedLimit(limit) == IF limit = <<>> THEN DEFAULT_LIMIT ELSE parseInt(limit[1])

RECURSIVE Reverse(_)
Reverse(seq) ==
    IF seq = <<>> THEN <<>> ELSE Append(Reverse(Tail(seq)), Head(seq))

\* loc => ({...loc, displayTime: loc.formattedTime || formatSimpleTime(loc.timestamp)});
\* a stored formattedTime is never the empty string
LocationEntry(loc) ==
    [ latitude |-> loc.latitude,
      longitude |-> loc.longitude,
      timestamp |-> loc.timestamp,
      formattedTime |-> loc.formattedTime,
      updateType |-> loc.updateType,
      provider |-> loc.provider,
      displayTime |-> loc.formattedTime ]

\* the locations member of the response of GET /api/location-history/:deviceId
Locations(deviceId, limit) ==
    LET history == ArrayAt(deviceLocations, deviceId) IN
    IF history = <<>> THEN <<>>
    ELSE LET sliced == Reverse(LastN(history, ParsedLimit(limit)))
         IN [i \in 1..Len(sliced) |-> LocationEntry(sliced[i])]

\* GET /api/location-history/:deviceId
GetLocationHistory(deviceId, limit) ==
    /\ lastCode' = 200
    /\ UNCHANGED << stores, uploadsDir, now, writes >>

NextLocationQuery ==
    \/ \E longitude \in {28, 77} :
          /\ FixesSent("D1") < MaxQueryFixes
          /\ LocationUpdate("D1", "", <<FixesSent("D1") + 1>>, <<longitude>>)
    \/ /\ FixesSent("D2") < 1
       /\ LocationUpdate("D2", "", <<1>>, <<77>>)
    \/ \E d \in DeviceIds, limit \in QueryLimits : GetLocationHistory(d, limit)
    \/ Tick

SpecLocationQuery == Init /\ [][NextLocationQuery]_vars

\* C34: a location history query with limit L (50 when the query names none)
\* answers the min(L, n) most recent of the n stored fixes, newest first, for
\* every L >= 0, and so never more than L fixes.
C34_LocationQueryLimited ==
    \A d \in DeviceIds, limit \in QueryLimits :
        LET history == ArrayAt(deviceLocations, d)
            n == Len(history)
            L == ParsedLimit(limit)
            locations == Locations(d, limit)
        IN /\ Len(locations) = Min(L, n)
           /\ Len(locations) <= L
           /\ \A i \in 1..Len(locations) :
                 locations[i] = LocationEntry(history[n - i + 1])

----------------------------------------------------------------------------
(* The notification query, checked under SpecNotificationQuery.  Texts are
   compared by their characters. *)

MaxQueryNotes == 3     \* notifications D1 sends

\* [packageName, appName] of the apps that notify
Apps == { <<"com.chat", "Chat">>, <<"com.mail", "Mail">> }

\* the app parameter of the query string; <<>> when the query has none
QueryApps == {<<>>, <<"all">>, <<"chat">>, <<"Chat">>, <<"MAIL">>, <<"com">>, <<"x">>}

\* the characters of the texts that occur
Chars(text) ==
    CASE text = "com.chat" -> <<"c", "o", "m", ".", "c", "h", "a", "t">>
      [] text = "com.mail" -> <<"c", "o", "m", ".", "m", "a", "i", "l">>
      [] text = "Chat" -> <<"C", "h", "a", "t">>
      [] text = "Mail" -> <<"M", "a", "i", "l">>
      [] text = "chat" -> <<"c", "h", "a", "t">>
      [] text = "MAIL" -> <<"M", "A", "I", "L">>
      [] text = "com" -> <<"c", "o", "m">>
      [] text = "all" -> <<"a", "l", "l">>
      [] text = "x" -> <<"x">>

\* String.prototype.toLowerCase on one character
LowerChar(c) ==
    CASE c = "C" -> "c" [] c = "M" -> "m" [] c = "A" -> "a"
      [] c = "I" -> "i" [] c = "L" -> "l" [] OTHER -> c

\* String.prototype.toLowerCase
toLowerCase(chars) == [i \in 1..Len(chars) |-> LowerChar(chars[i])]

\* String.prototype.includes
includes(chars, search) ==
    \E start \in 0..(Len(chars) - Len(search)) :
        SubSeq(chars, start + 1, start + Len(search)) = search

\* const { app = 'all' } = req.query
AppParameter(app) == IF app = <<>> THEN "all" ELSE app[1]

\* notif.packageName.includes(app) || notif.appName.toLowerCase().includes(app.toLowerCase())
MatchesApp(notif, app) ==
    \/ includes(Chars(notif.packageName), Chars(app))
    \/ includes(toLowerCase(Chars(notif.appName)), toLowerCase(Chars(app)))

FilterByApp_none(notifications, app) == notifications

\* if (app !== 'all') notifications = notifications.filter(...)
FilterByApp(notifications, app) ==
    IF app # "all"
    THEN SelectSeq(notifications, LAMBDA notif : MatchesApp(notif, app))
    ELSE notifications

\* the notifications member of the response of GET /api/notifications/:deviceId
Notifications(deviceId, limit, app) ==
    LET stored == ArrayAt(deviceNotifications, deviceId) IN
    IF stored = <<>> THEN <<>>
    ELSE FirstN(FilterByApp(stored, AppParameter(app)), ParsedLimit(limit))

\* GET /api/notifications/:deviceId
GetNotifications(deviceId, limit, app) ==
    /\ lastCode' = 200
    /\ UNCHANGED << stores, uploadsDir, now, writes >>

NextNotificationQuery ==
    \/ \E a \in Apps :
          /\ Len(ArrayAt(deviceNotifications, "D1")) < MaxQueryNotes
          /\ NotificationUpdate("D1", a[1], a[2], "Hi", "")
    \/ /\ ArrayAt(deviceNotifications, "D2") = <<>>
       /\ NotificationUpdate("D2", "com.chat", "Chat", "Hi", "")
    \/ \E d \in DeviceIds, limit \in QueryLimits, app \in QueryApps :
          GetNotifications(d, limit, app)
    \/ Tick

SpecNotificationQuery == Init /\ [][NextNotificationQuery]_vars

\* the positions in list of the notifications the query selects: all of them
\* when no app is named, else those of the named app
Selected(list, app) ==
    { i \in 1..Len(list) : app \in {<<>>, <<"all">>} \/ MatchesApp(list[i], app[1]) }

----------------------------------------------------------------------------
(* Two devices side by side, checked under SpecIsolation: D1 fills and
   empties its stores and is registered and deleted, while D2 comes to hold a
   record (made by its first location update) and one entry in each of its
   stores. *)

\* the routes keyed by deviceId, with the inputs the model sends
KeyedBy(deviceId) ==
    \/ Register(deviceId, "", <<>>)
    \/ LocationUpdate(deviceId, "", <<28>>, <<77>>)
    \/ NotificationUpdate(deviceId, "com.chat", "Chat", "Hi", "")
    \/ GalleryChanges(deviceId, "added", "/sdcard/a.jpg", "", <<>>)
    \/ UploadGallery(deviceId, "img.jpg", "stored")
    \/ UploadFrontCamera(deviceId, "r1", "img.jpg", "stored")
    \/ ClearLocation(deviceId)
    \/ ClearNotifications(deviceId)
    \/ ClearGallery(deviceId)
    \/ ClearChanges(deviceId)
    \/ DeleteDevice(deviceId)

NextIsolation ==
    \/ Register("D1", "", <<>>)
    \/ /\ Len(ArrayAt(deviceLocations, "D1")) < MaxHistory
       /\ LocationUpdate("D1", "", <<28>>, <<77>>)
    \/ /\ Len(ArrayAt(deviceNotifications, "D1")) < MaxHistory
       /\ NotificationUpdate("D1", "com.chat", "Chat", "Hi", "")
    \/ /\ Len(ArrayAt(galleryChanges, "D1")) < MaxHistory
       /\ GalleryChanges("D1", "added", "/sdcard/a.jpg", "", <<>>)
    \/ /\ ArrayAt(deviceGalleries, "D1") = <<>>
       /\ UploadGallery("D1", "img.jpg", "stored")
    \/ \E x \in RandomSuffixes : RequestFrontCamera("D1", "P1", "r1", x)
    \/ /\ ArrayAt(deviceGalleries, "D1") = <<>>
       /\ UploadFrontCamera("D1", "r1", "img.jpg", "stored")
    \/ ClearLocation("D1")
    \/ ClearNotifications("D1")
    \/ ClearGallery("D1")
    \/ ClearChanges("D1")
    \/ DeleteDevice("D1")
    \/ /\ ArrayAt(deviceLocations, "D2") = <<>>
       /\ LocationUpdate("D2", "", <<28>>, <<77>>)
    \/ /\ ArrayAt(deviceLocations, "D2") # <<>>
       /\ ArrayAt(deviceNotifications, "D2") = <<>>
       /\ NotificationUpdate("D2", "com.chat", "Chat", "Hi", "")
    \/ /\ ArrayAt(deviceNotifications, "D2") # <<>>
       /\ ArrayAt(galleryChanges, "D2") = <<>>
       /\ GalleryChanges("D2", "added", "/sdcard/a.jpg", "", <<>>)
    \/ /\ ArrayAt(galleryChanges, "D2") # <<>>
       /\ ArrayAt(deviceGalleries, "D2") = <<>>
       /\ UploadGallery("D2", "img.jpg", "stored")

SpecIsolation == Init /\ [][NextIsolation]_vars

\* the Device records of deviceId
RecordsOf(devices, deviceId) ==
    SelectSeq(devices, LAMBDA device : device.id = deviceId)

\* table holds for deviceId in new what it holds in old
SameEntry(old, new, deviceId) ==
    /\ HasKey(new, deviceId) <=> HasKey(old, deviceId)
    /\ ArrayAt(new, deviceId) = ArrayAt(old, deviceId)

\* C36: a call keyed by one device leaves the Device record, the location
\* history, the notifications, the gallery and the change log of every other
\* device as they were.
C36_OtherDevicesUntouched ==
    [][ \A d \in DeviceIds : KeyedBy(d) =>
          \A other \in DeviceIds \ {d} :
             /\ RecordsOf(connectedDevices', other) = RecordsOf(connectedDevices, other)
             /\ SameEntry(deviceLocations, deviceLocations', other)
             /\ SameEntry(deviceNotifications, deviceNotifications', other)
             /\ SameEntry(deviceGalleries, deviceGalleries', other)
             /\ SameEntry(galleryChanges, galleryChanges', other) ]_vars

\* D1 uploaded a file and was deleted since; D2 still holds its record, a fix,
\* a notification, a gallery item and a change event
C36_Witness ==
    /\ \E file \in uploadsDir : file.prefix = "D1"
    /\ ~Registered("D1")
    /\ ~HasKey(deviceGalleries, "D1")
    /\ ~HasKey(deviceLocations, "D1")
    /\ ~HasKey(deviceNotifications, "D1")
    /\ ~HasKey(galleryChanges, "D1")
    /\ Registered("D2")
    /\ Len(ArrayAt(deviceLocations, "D2")) = 1
    /\ Len(ArrayAt(deviceNotifications, "D2")) = 1
    /\ Len(ArrayAt(deviceGalleries, "D2")) >= 1
    /\ Len(ArrayAt(galleryChanges, "D2")) = 1
    /\ lastCode = 200

----------------------------------------------------------------------------
(* Registration of a device that has data, checked under SpecView *)

\* the element of enhancedDevices for deviceId
ListedView(deviceId) ==
    DeviceView(connectedDevices[FindDevice(connectedDevices, deviceId)])

\* C37: a registration of D changes the Device record of D only: the location
\* history, notifications, gallery, change log and capture requests of D are
\* after the call what they were before, also when D was registered already,
\* and the device list then reports the counters and the last fix of D from
\* those stores.
C37_RegisterKeepsStores ==
    [][ Register("D1", "", <<>>) =>
          /\ SameEntry(deviceLocations, deviceLocations', "D1")
          /\ SameEntry(deviceNotifications, deviceNotifications', "D1")
          /\ SameEntry(deviceGalleries, deviceGalleries', "D1")
          /\ SameEntry(galleryChanges, galleryChanges', "D1")
          /\ frontCameraRequests' = frontCameraRequests
          /\ backCameraRequests' = backCameraRequests
          /\ Len(RecordsOf(connectedDevices', "D1")) = 1
          /\ LET history == ArrayAt(deviceLocations, "D1")
                 view == ListedView("D1")'
             IN /\ view.locationCount = Len(history)
                /\ view.notificationCount = Len(ArrayAt(deviceNotifications, "D1"))
                /\ view.galleryCount = Len(ArrayAt(deviceGalleries, "D1"))
                /\ view.lastLocation =
                      IF history = <<>> THEN <<>> ELSE <<history[Len(history)]>> ]_vars

\* D1 registered again after its last location update: its record carries no
\* fix, its stores hold two fixes, a notification and a gallery item, and the
\* list reports them
C37_Witness ==
    /\ Registered("D1")
    /\ connectedDevices[FindDevice(connectedDevices, "D1")].lastLocation = <<>>
    /\ Len(ArrayAt(deviceLocations, "D1")) = 2
    /\ Len(ArrayAt(deviceNotifications, "D1")) = 1
    /\ Len(ArrayAt(deviceGalleries, "D1")) >= 1
    /\ PendingRequests(frontCameraRequests, "D1") # {}
    /\ ListedView("D1").locationCount = 2
    /\ ListedView("D1").lastLocation = <<deviceLocations["D1"][2]>>
    /\ lastCode = 200

----------------------------------------------------------------------------
(* Camera facing, checked under SpecFacing: D1 is asked for front and back
   pictures under ids of which "r1" is used for both facings, and uploads to
   either route under each of the ids. *)

FrontRequestIds == {"r1", "f1"}
BackRequestIds == {"r1", "b1"}

NextFacing ==
    \/ Register("D1", "", <<>>)
    \/ \E r \in FrontRequestIds, x \in RandomSuffixes :
          RequestFrontCamera("D1", "P1", r, x)
    \/ \E r \in BackRequestIds, x \in RandomSuffixes :
          RequestBackCamera("D1", "P1", r, x)
    \/ \E r \in FrontRequestIds \cup BackRequestIds :
          UploadFrontCamera("D1", r, "img.jpg", "stored")
    \/ \E r \in FrontRequestIds \cup BackRequestIds :
          UploadBackCamera("D1", r, "back.jpg", "stored")

SpecFacing == Init /\ [][NextFacing]_vars

\* the facings under which a request with the id was made
CreatedAs(front, back, requestId) ==
    {request.cameraType : request \in
        {table[requestId] : table \in {t \in {front, back} : HasKey(t, requestId)}}}

\* a gallery item that names a request is a camera picture of a facing under
\* which a request with that id was made; when the id was used for one facing
\* only, that is the facing of the picture
FacingMatches(galleries, front, back) ==
    \A d \in DOMAIN galleries : \A i \in 1..Len(galleries[d]) :
        LET item == galleries[d][i]
            created == CreatedAs(front, back, item.requestId[1])
        IN item.requestId # <<>> =>
              /\ item.type \in {"front_camera", "back_camera"}
              /\ item.type = "front_camera" => "front" \in created
              /\ item.type = "back_camera" => "back" \in created
              /\ created = {"front"} => item.type = "front_camera"
              /\ created = {"back"} => item.type = "back_camera"
              /\ item.type = "front_camera" => HasKey(front, item.requestId[1])
              /\ item.type = "back_camera" => HasKey(back, item.requestId[1])

\* an upload to the route of table: it captures the request of that table or,
\* when the table has none with the id, answers 404 and changes nothing
FulfilsOnly(table, other, requestId, type) ==
    IF HasKey(table, requestId)
    THEN /\ lastCode' = 200
         /\ table'[requestId].status = "captured"
         /\ other' = other
         /\ deviceGalleries'["D1"][1].type = type
         /\ deviceGalleries'["D1"][1].requestId = <<requestId>>
    ELSE /\ lastCode' = 404
         /\ table' = table /\ other' = other
         /\ deviceGalleries' = deviceGalleries

====
